---------------------------- MODULE Spec2Model ----------------------------
(***************************************************************************)
(* Model of the UI-QA run orchestrator (backend/app/worker.py) and of the  *)
(* collaborators it drives.  A run record is created by create_run, its id *)
(* is sent to the task queue, and process_run executes the steps of        *)
(* _process_run one block at a time.  Every call that can raise in the     *)
(* code (event publication, commit, sub-process, collaborator) can raise   *)
(* here; the number of raised exceptions per behaviour is bounded.         *)
(***************************************************************************)
EXTENDS Integers, Sequences, FiniteSets, TLC

\* ------------------------------------------------------------- bounds
MaxInvocations == 2      \* process_run invocations per behaviour
MaxFaults == 1           \* exceptions raised by the environment per behaviour

\* ---------------------------------------------------------- constants
NULL == "NULL"
\* an optional column or value: None, or Some(x)
None == <<>>
Some(x) == <<x>>
RunIds == {"r1"}                 \* ids create_run can generate
MissingId == "r0"                \* an id that never has a record
TaskIds == RunIds \cup {MissingId}

VARIABLES
    runs,          \* table runs: run id -> committed Run row
    bug_rows,      \* table bugs: committed Bug rows, in insertion order
    artifacts,     \* table artifacts: committed Artifact rows
    issues,        \* table issues: committed IssueRef rows
    queue,         \* task messages sent to app.worker.process_run
    events,        \* what the latest invocation published, in order
    pc,            \* position of the consumer inside _process_run
    cur,           \* run id the consumer is processing (NULL when idle)
    suite_results, \* local: list of SuiteResult
    bugs,          \* local: list of normalised bug dicts
    idx,           \* local: loop index (triage loop, issue loop)
    created,       \* local: issues created by _do()
    exc,           \* the last exception raised (NoExc when none)
    ninv,          \* number of invocations started so far
    nfaults,       \* number of exceptions raised by the environment so far
    hist,          \* history of the current invocation (what happened in it)
    env,           \* run id -> what the world outside has answered for it
    fx_in,         \* input handed to a function applied on its own
    fx_out,        \* what the function returned (None before it is applied)
    calls,         \* caller -> the frame of its run_suite call
    host,          \* the host run_suite runs on: who listens on each port
    bus,           \* Redis pub/sub: what was published, and the subscribers
    wm,            \* the WorkerManager singleton's attributes
    workers,       \* the worker processes spawned so far, by pid
    reqs,          \* API thread -> the frame of its worker-manager call
    api,           \* client -> the frame of its POST /api/runs request
    inst           \* one run_suite call, command by command

vars == <<runs, bug_rows, artifacts, issues, queue, events, pc, cur,
          suite_results, bugs, idx, created, exc, ninv, nfaults, hist, env>>


\* ------------------------------------------------------------ strings
\* A Python str is modelled as the sequence of its code points; the model's
\* strings are ASCII, so .encode("utf-8") yields the same sequence of bytes.
Str_smoke == <<115, 109, 111, 107, 101>>
Str_regression == <<114, 101, 103, 114, 101, 115, 115, 105, 111, 110>>
Str_colon == <<58>>
Str_dash == <<32, 45, 32>>                        \* " - "
Str_default_head == <<85, 73, 32, 116, 101, 115, 116, 32, 102, 97, 105,
                      108, 117, 114, 101, 32, 40>> \* "UI test failure ("
Str_default_tail == <<41>>                        \* ")"
Str_unknown_test == <<85, 110, 107, 110, 111, 119, 110, 32, 116, 101, 115,
                      116>>                       \* "Unknown test"

SuiteStr(suite) == IF suite = "smoke" THEN Str_smoke ELSE Str_regression

\* str.isspace() on ASCII: \t \n \v \f \r, the separators 0x1c-0x1f, space
Whitespace == {9, 10, 11, 12, 13, 28, 29, 30, 31, 32}

RECURSIVE lstrip(_)
lstrip(s) == IF s # <<>> /\ Head(s) \in Whitespace THEN lstrip(Tail(s)) ELSE s

RECURSIVE rstrip(_)
rstrip(s) ==
    IF s # <<>> /\ s[Len(s)] \in Whitespace
    THEN rstrip(SubSeq(s, 1, Len(s) - 1)) ELSE s

strip(s) == rstrip(lstrip(s))

\* s[:n]
Truncate(s, n) == IF Len(s) <= n THEN s ELSE SubSeq(s, 1, n)

\* -------------------------------------------------------------- SHA-1
\* hashlib.sha1 on a message of at most 55 bytes (one block).  A 32-bit
\* word is a pair <<high 16 bits, low 16 bits>>.
M16 == 65536

RECURSIVE Pow2(_)
Pow2(n) == IF n = 0 THEN 1 ELSE 2 * Pow2(n - 1)

RECURSIVE BitOp(_, _, _, _)
\* op 1 = and, 2 = or, 3 = xor, on n-bit naturals
BitOp(op, a, b, n) ==
    IF n = 0 THEN 0
    ELSE LET x == a % 2
             y == b % 2
             z == CASE op = 1 -> x * y
                    [] op = 2 -> IF x + y > 0 THEN 1 ELSE 0
                    [] OTHER -> (x + y) % 2
         IN z + 2 * BitOp(op, a \div 2, b \div 2, n - 1)

And32(a, b) == <<BitOp(1, a[1], b[1], 16), BitOp(1, a[2], b[2], 16)>>
Or32(a, b) == <<BitOp(2, a[1], b[1], 16), BitOp(2, a[2], b[2], 16)>>
Xor32(a, b) == <<BitOp(3, a[1], b[1], 16), BitOp(3, a[2], b[2], 16)>>
Not32(a) == <<(M16 - 1) - a[1], (M16 - 1) - a[2]>>

Add32(a, b) ==
    LET lo == a[2] + b[2]
        hi == a[1] + b[1] + (lo \div M16)
    IN <<hi % M16, lo % M16>>

\* rotate left by k, 0 < k < 16
RotlSmall(a, k) ==
    LET p == Pow2(k)
        q == Pow2(16 - k)
    IN <<((a[1] * p) % M16) + (a[2] \div q),
         ((a[2] * p) % M16) + (a[1] \div q)>>

Rotl(a, k) ==
    IF k < 16 THEN RotlSmall(a, k)
    ELSE IF k = 16 THEN <<a[2], a[1]>>
    ELSE RotlSmall(<<a[2], a[1]>>, k - 16)

ShaPad(msg) ==
    LET n == Len(msg)
    IN [i \in 1..64 |->
          IF i <= n THEN msg[i]
          ELSE IF i = n + 1 THEN 128
          ELSE IF i = 63 THEN (n * 8) \div 256
          ELSE IF i = 64 THEN (n * 8) % 256
          ELSE 0]

ShaWord(blk, t) ==
    <<blk[4 * t + 1] * 256 + blk[4 * t + 2],
      blk[4 * t + 3] * 256 + blk[4 * t + 4]>>

RECURSIVE ShaSchedule(_, _)
ShaSchedule(w, t) ==
    IF t = 80 \/ Len(w) = 0 THEN w
    ELSE ShaSchedule(
           Append(w, Rotl(Xor32(Xor32(w[t - 2], w[t - 7]),
                                Xor32(w[t - 13], w[t - 15])), 1)),
           t + 1)

ShaF(t, b, c, d) ==
    IF t < 20 THEN Or32(And32(b, c), And32(Not32(b), d))
    ELSE IF t < 40 THEN Xor32(Xor32(b, c), d)
    ELSE IF t < 60 THEN Or32(Or32(And32(b, c), And32(b, d)), And32(c, d))
    ELSE Xor32(Xor32(b, c), d)

ShaK(t) ==
    IF t < 20 THEN <<23170, 31129>>          \* 5A827999
    ELSE IF t < 40 THEN <<28377, 60321>>     \* 6ED9EBA1
    ELSE IF t < 60 THEN <<36635, 48348>>     \* 8F1BBCDC
    ELSE <<51810, 49622>>                    \* CA62C1D6

ShaH0 ==
    << <<26437, 8961>>, <<61389, 43913>>, <<39098, 56574>>,
       <<4146, 21622>>, <<50130, 57840>> >>

RECURSIVE ShaRounds(_, _, _)
ShaRounds(s, w, t) ==
    IF t = 80 \/ Len(s) = 0 THEN s
    ELSE LET tmp == Add32(Add32(Add32(Add32(Rotl(s[1], 5),
                                            ShaF(t, s[2], s[3], s[4])),
                                      s[5]), ShaK(t)), w[t + 1])
         IN ShaRounds(<<tmp, s[1], Rotl(s[2], 30), s[3], s[4]>>, w, t + 1)

sha1(msg) ==
    LET blk == ShaPad(msg)
        w == ShaSchedule([t \in 1..16 |-> ShaWord(blk, t - 1)], 16)
        s == ShaRounds(ShaH0, w, 0)
    IN [i \in 1..5 |-> Add32(ShaH0[i], s[i])]

\* hexdigest()[:12]: the first 48 bits, as three groups of four hex digits
hexdigest12(msg) ==
    LET h == sha1(msg) IN <<h[1][1], h[1][2], h[2][1]>>


\* ------------------------------------------------------ Python values
\* json.loads results and the dicts the worker passes around, tagged by type.
\* A str is held either as a token (a TLA+ string: statuses, severities,
\* messages) or, where its characters matter (titles), as PyText: the sequence
\* of its characters.
PyStr(s) == [t |-> "str", v |-> s]
PyText(s) == [t |-> "text", v |-> s]
PyInt(n) == [t |-> "int", v |-> n]
PyList(s) == [t |-> "list", v |-> s]
PyDict(d) == [t |-> "dict", v |-> d]
PyNone == [t |-> "None", v |-> NULL]
EmptyDict == [k \in {} |-> NULL]

\* d.get(k, default) on a dict value
Get(d, k, default) == IF k \in DOMAIN d.v THEN d.v[k] ELSE default

\* bool(x)
Truthy(x) ==
    CASE x.t = "None" -> FALSE
      [] x.t = "int" -> x.v # 0
      [] x.t = "str" -> x.v # ""
      [] x.t = "text" -> x.v # <<>>
      [] x.t = "list" -> x.v # <<>>
      [] x.t = "dict" -> DOMAIN x.v # {}
      [] OTHER -> TRUE

\* ------------------------------------------------- Playwright report
\* The JSON report of a suite run: suites -> specs -> tests -> results; a
\* suite of Playwright's report can itself hold child suites (describe
\* blocks) under "suites".
Result(status) == PyDict([status |-> PyStr(status)])
ResultErr(status, msg) ==
    PyDict([status |-> PyStr(status), error |-> PyDict([message |-> PyStr(msg)])])
Test(title, results) == PyDict([title |-> PyText(title), results |-> PyList(results)])
SpecOf(title, tests) == PyDict([title |-> PyText(title), tests |-> PyList(tests)])
SuiteOf(specs, children) ==
    PyDict([specs |-> PyList(specs), suites |-> PyList(children)])
Report(suites) == PyDict([suites |-> PyList(suites)])

T_a == <<97>>           \* "a"
T_b == <<98>>           \* "b"
T_login == <<76, 111, 103, 105, 110>>   \* "Login"

\* the reports the test runner leaves in results_json in this model: one
\* failed test; a test whose two attempts failed and timed out
Reports ==
    << Report(<<SuiteOf(<<SpecOf(T_login, <<Test(T_a, <<Result("failed")>>)>>)>>,
                        <<>>)>>),
       Report(<<SuiteOf(<<SpecOf(T_login,
                                 <<Test(T_b, <<Result("failed"),
                                               ResultErr("timedOut", "t/o"),
                                               Result("passed")>>)>>)>>,
                        <<>>)>>) >>

NoReport == 0     \* results_json does not exist (or does not parse)

\* --- _extract_bugs_from_playwright_json
FallbackBug(spec, test, result, suite) ==
    LET title == Get(spec, "title", PyText(Str_unknown_test)).v
                   \o Str_dash \o Get(test, "title", PyText(<<>>)).v
        err == Get(result, "error", PyDict(EmptyDict))
        error_msg == IF Truthy(Get(err, "message", PyNone))
                     THEN Get(err, "message", PyNone).v ELSE ""
    IN PyDict([title |-> PyText(Truncate(title, 200)),
               severity |-> PyStr("major"),
               suite |-> PyStr(suite),
               expected |-> PyStr("Test should pass"),
               actual |-> PyStr(IF error_msg # "" THEN error_msg
                                ELSE Get(result, "status", PyStr("failed")).v)])

RECURSIVE ExtractResults(_, _, _, _)
ExtractResults(spec, test, results, suite) ==
    IF results = <<>> THEN <<>>
    ELSE (IF Get(Head(results), "status", PyNone).v \in {"failed", "timedOut"}
          THEN <<FallbackBug(spec, test, Head(results), suite)>>
          ELSE <<>>)
         \o ExtractResults(spec, test, Tail(results), suite)

RECURSIVE ExtractTests(_, _, _)
ExtractTests(spec, tests, suite) ==
    IF tests = <<>> THEN <<>>
    ELSE ExtractResults(spec, Head(tests),
                        Get(Head(tests), "results", PyList(<<>>)).v, suite)
         \o ExtractTests(spec, Tail(tests), suite)

RECURSIVE ExtractSpecs(_, _)
ExtractSpecs(specs, suite) ==
    IF specs = <<>> THEN <<>>
    ELSE ExtractTests(Head(specs), Get(Head(specs), "tests", PyList(<<>>)).v, suite)
         \o ExtractSpecs(Tail(specs), suite)

RECURSIVE ExtractSuites(_, _)
ExtractSuites(suites, suite) ==
    IF suites = <<>> THEN <<>>
    ELSE ExtractSpecs(Get(Head(suites), "specs", PyList(<<>>)).v, suite)
         \o ExtractSuites(Tail(suites), suite)

\* the walk over the parsed report
ExtractFromData(data, suite) ==
    ExtractSuites(Get(data, "suites", PyList(<<>>)).v, suite)

\* results_json names the file: the index of its content in Reports, or
\* NoReport when the file does not exist
extract_bugs_from_playwright_json(results_json, suite) ==
    IF results_json = NoReport THEN <<>>
    ELSE ExtractFromData(Reports[results_json], suite)


\* ------------------------------------------------------------- events
NoExtra == EmptyDict

\* a formatted message: its fixed text and what is interpolated into it
Msg(text, with) == [text |-> text, with |-> with]

\* publish_log(run_id, message, step, level)
publish_log(message, step, level) ==
    [type |-> "log", level |-> level, step |-> step, message |-> message]

\* not the code: every step event says started
publish_step_started(step, status, extra) ==
    [type |-> "step", step |-> step, status |-> "started"]

\* publish_step(run_id, step, status, extra): payload.update(extra) when extra
publish_step(step, status, extra) ==
    LET payload == [type |-> "step", step |-> step, status |-> status]
    IN IF DOMAIN extra # {}
       THEN [k \in DOMAIN payload \cup DOMAIN extra |->
               IF k \in DOMAIN extra THEN extra[k] ELSE payload[k]]
       ELSE payload

\* publish_event(run_id, payload): one message on channel uiqa:events:<run_id>
publish_event(run_id, payload) == [channel |-> run_id, payload |-> payload]

\* --------------------------------------------------------- exceptions
Raised(cls, what) == [cls |-> cls, what |-> what]
RedisError == Raised("ConnectionError", "publish")
CommitError == Raised("OperationalError", "commit")

\* f"Command failed: {e}" / f"{str(e)}\n\nTraceback:\n{tb}"
CommandFailed(e) == Msg("Command failed", e)
WithTraceback(e) == Msg("Traceback", e)
NoExc == Raised("none", "none")

\* -------------------------------------------------- blocks of a step
\* A block of _process_run is the sequence of its calls that can raise: a
\* publication ("pub") or another call ("call").  f = 0: none raises;
\* f = i: the i-th raises, so only the calls before it took effect.
Pub(payload) == [kind |-> "pub", ev |-> payload]
Call(name) == [kind |-> "call", ev |-> name]

RECURSIVE PublishedBefore(_, _, _)
PublishedBefore(run_id, ops, n) ==
    IF n = 0 THEN <<>>
    ELSE PublishedBefore(run_id, ops, n - 1)
         \o (IF ops[n].kind = "pub"
             THEN <<publish_event(run_id, ops[n].ev)>> ELSE <<>>)

Done(ops, f) == IF f = 0 THEN Len(ops) ELSE f - 1

\* may one more exception be raised by the environment?
CanFail == nfaults < MaxFaults

\* calls whose exception is the answer of the world to the call (the adapter's
\* transport error, timeout or unparsable response; run_suite's missing
\* package.json, server or tests folder): an outcome of the input, not one
\* of the MaxFaults exceptions of the infrastructure
WorldCalls == {"analyze_repo", "generate_tests_and_docs", "run_suite"}
Answered(ops) ==
    {i \in 1..Len(ops) : ops[i].kind = "call" /\ ops[i].ev \in WorldCalls}
Fails(ops) == IF CanFail THEN 0..Len(ops) ELSE {0} \cup Answered(ops)

\* the exception the failing call raises: a publication raises RedisError
ExcOf(ops, f, e) == IF ops[f].kind = "pub" THEN RedisError ELSE e

\* hist: run_id the invocation is for; entry_status and row: the run's status
\* and row as the invocation found them; began: line 88 committed "running";
\* outcome: "active", then "returned" or "raised" (an exception left
\* _process_run); faults: what raised during the invocation, in order;
\* adapter: how the adapter answered the last analyze or generate call
Idle == [run_id |-> NULL, entry_status |-> NULL, outcome |-> NULL,
         began |-> FALSE, faults |-> <<>>, row |-> None, adapter |-> NULL]

locals == <<suite_results, bugs, idx, created>>
fx == <<fx_in, fx_out>>
suite_vars == <<calls, host>>
bus_vars == <<bus>>
wm_vars == <<wm, workers, reqs>>
api_vars == <<api>>
\* what the orchestrator's actions leave alone
inst_vars == <<inst>>
aside == <<fx, suite_vars, bus_vars, wm_vars, api_vars, inst_vars>>
allvars == <<vars, aside>>
tables == <<runs, bug_rows, artifacts, issues>>

\* --------------------------------------------------------------- Init
InitOrchestrator ==
    /\ runs = [r \in {} |-> NULL]
    /\ bug_rows = <<>>
    /\ artifacts = <<>>
    /\ issues = <<>>
    /\ queue = <<>>
    /\ events = <<>>
    /\ pc = "idle"
    /\ cur = NULL
    /\ suite_results = <<>>
    /\ bugs = <<>>
    /\ idx = 0
    /\ created = 0
    /\ exc = NoExc
    /\ ninv = 0
    /\ nfaults = 0
    /\ hist = Idle
    /\ env = [r \in {} |-> NULL]

\* --- run_suite: nobody has called it; no port of the host is bound
MaxPorts == 2
Ports == 1..MaxPorts
Callers == {"w1", "w2"}
NoProc == [sh |-> "none", cmd |-> "none", forked |-> FALSE]

NotCalled ==
    [pc |-> "idle", port |-> 0, server |-> NoProc, bound |-> FALSE,
     runner |-> NoProc, code |-> 0, exc |-> NULL, ret |-> None]

InitSuite ==
    /\ calls = [c \in Callers |-> NotCalled]
    /\ host = [p \in Ports |-> "free"]

\* --- event bus: nothing published, nobody subscribed
Subscribers == {"s1", "s2"}
Unsubscribed == [state |-> "none", run_id |-> NULL, channel |-> NULL,
                 since |-> 0, inbox |-> <<>>, received |-> <<>>]

InitBus == bus = [log |-> <<>>, subs |-> [s \in Subscribers |-> Unsubscribed]]

\* --- worker manager: WorkerManager.__init__ (lines 48-57), no request yet
Threads == {"t1", "t2"}
NoRequest == [pc |-> "idle", op |-> NULL, mode |-> NULL, seen |-> None,
              spawned |-> None, result |-> None]

InitWm ==
    /\ wm = [process |-> None, mode |-> "local", start_time |-> None,
             logs |-> <<>>, stop_logging |-> FALSE]
    /\ workers = <<>>
    /\ reqs = [t \in Threads |-> NoRequest]

\* --- POST /api/runs (main.py 38-57): no request yet
Clients == {"c1", "c2"}
NoSubmission == [pc |-> "idle", done |-> 0, run_id |-> NULL, suite |-> NULL,
                 flag |-> NULL, row |-> None, response |-> None]

InitApi == api = [c \in Clients |-> NoSubmission]

\* --- run_suite command by command: not called yet.  enabled: UIQA_NPM_INSTALL
\* is not off; ui: the lockfiles of the UI folder; tests: those of the test
\* folder (None: it has no package.json); cmds: the commands _run has run
\* with their exit codes; server: _start_server was called; copied: the
\* files _copy_test_artifacts copied (None: it was not called)
NoInstall == [pc |-> "idle", enabled |-> TRUE, ui |-> {}, tests |-> None,
              cmds |-> <<>>, server |-> FALSE, exc |-> NULL, copied |-> None]

InitInstall == inst = NoInstall

InitServices == InitSuite /\ InitBus /\ InitWm /\ InitApi /\ InitInstall

InitFx ==
    /\ fx_in = None
    /\ fx_out = None

Init ==
    /\ InitOrchestrator
    /\ InitFx
    /\ InitServices

\* ------------------------------------------------- submission (main.py)
SuiteChoices == {"smoke", "regression", "both"}

NewRun(suite, create_github_issues) ==
    [status |-> "queued", started_at |-> None, finished_at |-> None,
     suite |-> suite, create_github_issues |-> create_github_issues,
     summary_json |-> None, error_message |-> None]

Tasks == Len(queue) + ninv

\* The world outside answers a run the same way each time it is asked (the
\* repository, its tests and the collaborators' answers do not change between
\* two deliveries of one run id); the exceptions it raises are transient.
\* Nothing has been asked yet for a new run.
NoAnswers ==
    [suite |-> [s \in {"smoke", "regression"} |-> None],
     triage |-> [s \in {"smoke", "regression"} |-> None],
     issue |-> <<>>]

\* create_run: the row is committed, then the id is enqueued
create_run(run_id, suite, flag) ==
    /\ pc = "idle"
    /\ run_id \notin DOMAIN runs
    /\ Tasks < MaxInvocations
    /\ runs' = [r \in DOMAIN runs \cup {run_id} |->
                  IF r = run_id THEN NewRun(suite, flag) ELSE runs[r]]
    /\ env' = [r \in DOMAIN runs \cup {run_id} |->
                 IF r = run_id THEN NoAnswers ELSE env[r]]
    /\ queue' = Append(queue, run_id)
    /\ UNCHANGED <<bug_rows, artifacts, issues, events, pc, cur, locals, exc,
                   ninv, nfaults, hist>>
    /\ UNCHANGED aside

\* send_task("app.worker.process_run", [run_id]) by any producer: the task
\* is public and the queue may deliver an id again.  The consumer reads the
\* queue only when idle, so producers are scheduled at those points.
send_task(run_id) ==
    /\ pc = "idle"
    /\ Tasks < MaxInvocations
    /\ queue' = Append(queue, run_id)
    /\ UNCHANGED <<tables, events, pc, cur, locals, exc, ninv, nfaults, hist, env>>
    /\ UNCHANGED aside

\* ------------------------------------------------ _process_run, entry
Enter(run_id) ==
    [run_id |-> run_id,
     entry_status |-> IF run_id \in DOMAIN runs THEN runs[run_id].status ELSE NULL,
     outcome |-> "active", began |-> FALSE, faults |-> <<>>,
     row |-> IF run_id \in DOMAIN runs THEN Some(runs[run_id]) ELSE None,
     adapter |-> NULL]

FreshLocals ==
    /\ suite_results' = <<>>
    /\ bugs' = <<>>
    /\ idx' = 0
    /\ created' = 0

\* not the code: a row is created for an id that has none, and the run begins
process_run_upsert ==
    /\ pc = "idle" /\ queue # <<>>
    /\ Head(queue) \notin DOMAIN runs
    /\ queue' = Tail(queue)
    /\ cur' = Head(queue)
    /\ ninv' = ninv + 1
    /\ runs' = [r \in DOMAIN runs \cup {Head(queue)} |->
                  IF r = Head(queue) THEN NewRun("smoke", FALSE) ELSE runs[r]]
    /\ env' = [r \in DOMAIN runs \cup {Head(queue)} |->
                 IF r = Head(queue) THEN NoAnswers ELSE env[r]]
    /\ hist' = [Enter(Head(queue)) EXCEPT !.outcome = "returned"]
    /\ exc' = NoExc
    /\ events' = <<>>
    /\ FreshLocals
    /\ UNCHANGED <<bug_rows, artifacts, issues, pc, nfaults>>
    /\ UNCHANGED aside

\* lines 82-84: no row for the id
process_run_missing ==
    /\ pc = "idle" /\ queue # <<>>
    /\ Head(queue) \notin DOMAIN runs
    /\ queue' = Tail(queue)
    /\ cur' = Head(queue)
    /\ ninv' = ninv + 1
    /\ hist' = [Enter(Head(queue)) EXCEPT !.outcome = "returned"]
    /\ exc' = NoExc
    /\ events' = <<>>
    /\ FreshLocals
    /\ UNCHANGED <<tables, pc, nfaults, env>>
    /\ UNCHANGED aside

\* the assignments of lines 86-87
MarkRunning(run, now) ==
    [run EXCEPT !.status = "running", !.started_at = Some(now)]

\* lines 82-88: the row exists; status running is committed
process_run_begin ==
    /\ pc = "idle" /\ queue # <<>>
    /\ Head(queue) \in DOMAIN runs
    /\ queue' = Tail(queue)
    /\ cur' = Head(queue)
    /\ ninv' = ninv + 1
    /\ events' = <<>>
    /\ FreshLocals
    /\ \E f \in Fails(<<Call("commit")>>) :
         IF f = 0
         THEN /\ runs' = [runs EXCEPT ![Head(queue)] = MarkRunning(@, ninv + 1)]
              /\ pc' = "setup"
              /\ hist' = [Enter(Head(queue)) EXCEPT !.began = TRUE]
              /\ exc' = NoExc
              /\ UNCHANGED nfaults
         ELSE /\ hist' = [Enter(Head(queue)) EXCEPT !.outcome = "raised",
                                                    !.faults = <<"commit">>]
              /\ exc' = CommitError
              /\ nfaults' = nfaults + 1
              /\ UNCHANGED <<runs, pc>>
    /\ UNCHANGED <<bug_rows, artifacts, issues, env>>
    /\ UNCHANGED aside

\* lines 90-95: artifacts_root.mkdir, shutil.rmtree(work_root); outside the try
setup_dirs ==
    /\ pc = "setup"
    /\ \E f \in Fails(<<Call("mkdir")>>) :
         IF f = 0
         THEN /\ pc' = "clone"
              /\ UNCHANGED <<hist, exc, nfaults>>
         ELSE /\ pc' = "idle"
              /\ exc' = Raised("OSError", "mkdir")
              /\ hist' = [hist EXCEPT !.outcome = "raised",
                                      !.faults = Append(@, "mkdir")]
              /\ nfaults' = nfaults + 1
    /\ UNCHANGED <<tables, queue, events, cur, locals, ninv, env>>
    /\ UNCHANGED aside

\* ------------------------------------------- blocks inside the try
\* The effect shared by the blocks of lines 98-237: publish what was
\* published before the failing call, then go on or to the except clauses.
\* h: the record of the invocation as the block leaves it when nothing raises
BlockFrom(h, ops, f, e, next) ==
    /\ events' = events \o PublishedBefore(cur, ops, Done(ops, f))
    /\ IF f = 0
       THEN /\ pc' = next
            /\ hist' = h
            /\ UNCHANGED <<exc, nfaults>>
       ELSE /\ pc' = "except"
            /\ exc' = ExcOf(ops, f, e)
            /\ hist' = [h EXCEPT !.faults = Append(@, ExcOf(ops, f, e).what)]
            /\ nfaults' = IF f \in Answered(ops) THEN nfaults ELSE nfaults + 1

Block(ops, f, e, next) == BlockFrom(hist, ops, f, e, next)

\* lines 99-102
CloneErrors == {Raised("CalledProcessError", "git clone"),
                Raised("TimeoutExpired", "git clone")}

clone_repo ==
    /\ pc = "clone"
    /\ LET ops == <<Pub(publish_step("clone_repo", "started", NoExtra)),
                    Pub(publish_log(Msg("Cloning", NULL), "clone_repo", "info")),
                    Call("git clone"),
                    Pub(publish_step("clone_repo", "finished", NoExtra))>>
       IN \E f \in Fails(ops), e \in CloneErrors :
            Block(ops, f, e, "analyze")
    /\ UNCHANGED <<tables, queue, cur, locals, ninv, env>>
    /\ UNCHANGED aside

\* ------------------------------------------- the adapter's answers
\* adapter.call (claudecode_adapter.py 99-121) raises, or returns the text of
\* the tool's answer.  The text is modelled by what each parse attempt of
\* _parse_json_response makes of it: empty (line 139), and the value
\* json.loads gives for the whole text (144), for the first code fence
\* (149-152) and for the outermost braces (157-160), None where the
\* pattern does not match or json.loads raises JSONDecodeError.
CallRaised(cls) == [t |-> "raise", v |-> cls]
Raw(empty, direct, fenced, braces) ==
    [t |-> "raw", empty |-> empty, direct |-> direct, fenced |-> fenced,
     braces |-> braces]

JsonObject == PyDict([workflows |-> PyList(<<>>)])
JsonArray == PyList(<<>>)

\* asyncio.wait_for at its timeout; the MCP server cannot be launched
CallErrors == {CallRaised("TimeoutError"), CallRaised("OSError")}

RawResponses ==
    { Raw(TRUE, None, None, None),                \* "" or white space
      Raw(FALSE, None, None, None),               \* prose without JSON
      Raw(FALSE, Some(JsonObject), None, None),   \* the object asked for
      Raw(FALSE, Some(JsonArray), None, None),    \* JSON, but not an object
      Raw(FALSE, None, Some(JsonObject), None),   \* an object in a code fence
      Raw(FALSE, None, None, Some(JsonObject)) }  \* prose around an object

AdapterAnswers == CallErrors \cup RawResponses

\* claudecode_adapter.py 127-164
parse_json_response(raw) ==
    IF raw.empty THEN CallRaised("ValueError")
    ELSE IF raw.direct # None THEN raw.direct[1]
    ELSE IF raw.fenced # None THEN raw.fenced[1]
    ELSE IF raw.braces # None THEN raw.braces[1]
    ELSE CallRaised("ValueError")

\* analyze_repo / generate_tests_and_docs: lines 206-207 and 256-257
adapter_operation(answer) ==
    IF answer.t = "raise" THEN answer ELSE parse_json_response(answer)

\* worker.py 108-109 and 116-117: the call, then .get on what it returned;
\* NULL when neither raises
StepException(answer) ==
    LET result == adapter_operation(answer)
    IN IF result.t = "raise" THEN result.v
       ELSE IF result.t # "dict" THEN "AttributeError"
       ELSE NULL

\* the answer as the invocation's record keeps it
AnswerKind(answer) ==
    IF answer.t = "raise" THEN "raised"
    ELSE IF answer.empty
            \/ (answer.direct = None /\ answer.fenced = None /\ answer.braces = None)
    THEN "unparsable"
    ELSE "parsable"

\* the block of an adapter step: the publication of started may raise before
\* the call; once called, the answer decides whether the call (or the .get
\* of the next line) raises
AdapterBlock(ops, operation, next) ==
    \E answer \in AdapterAnswers :
      \E f \in Fails(ops) :
        /\ f # 1 => ((StepException(answer) # NULL) <=> (f = 2))
        /\ BlockFrom(IF f = 1 THEN hist
                     ELSE [hist EXCEPT !.adapter = AnswerKind(answer)],
                     ops, f,
                     Raised(IF StepException(answer) # NULL
                            THEN StepException(answer) ELSE "none", operation),
                     next)

\* lines 104-113
analyze_repo ==
    /\ pc = "analyze"
    /\ LET ops == <<Pub(publish_step("analyze_repo", "started", NoExtra)),
                    Call("analyze_repo"),
                    Pub(publish_log(Msg("Detected start", NULL), "analyze_repo", "info")),
                    Pub(publish_step("analyze_repo", "finished", NoExtra))>>
       IN AdapterBlock(ops, "analyze_repo", "generate")
    /\ UNCHANGED <<tables, queue, cur, locals, ninv, env>>
    /\ UNCHANGED aside

\* lines 115-118
generate_tests_docs ==
    /\ pc = "generate"
    /\ LET ops == <<Pub(publish_step("generate_tests_docs", "started", NoExtra)),
                    Call("generate_tests_and_docs"),
                    Pub(publish_log(Msg("Generated files", NULL), "generate_tests_docs",
                                    "info")),
                    Pub(publish_step("generate_tests_docs", "finished", NoExtra))>>
       IN AdapterBlock(ops, "generate_tests_and_docs",
                       IF runs[cur].suite \in {"smoke", "both"} THEN "smoke"
                       ELSE "regression")
    /\ UNCHANGED <<tables, queue, cur, locals, ninv, env>>
    /\ UNCHANGED aside


\* ------------------------------------------------------- suite runs
\* PlaywrightRunner.run_suite returns SuiteResult(ok = (code == 0)) or raises.
\* exit code 124: the runner was killed at its timeout and left no report.
TimeoutExit == 124

SuiteResult(suite, code, results_json) ==
    [suite |-> suite, ok |-> (code = 0), exit_code |-> code,
     results_json |-> results_json]

SuiteOutcomes(suite) ==
    {SuiteResult(suite, 0, NoReport), SuiteResult(suite, TimeoutExit, NoReport)}
    \cup {SuiteResult(suite, 1, r) : r \in 1..Len(Reports)}

SuiteExtra(sr) == [ok |-> sr.ok, exit_code |-> sr.exit_code]

\* what is asked of the world: its earlier answer, or any answer
Answers(earlier, any) == IF earlier # None THEN {earlier[1]} ELSE any

RunSuiteBlock(step, suite, next) ==
    \E sr \in Answers(env[cur].suite[suite], SuiteOutcomes(suite)) :
      LET ops == <<Pub(publish_step(step, "started", NoExtra)),
                   Call("run_suite"),
                   Pub(publish_step(step, "finished", SuiteExtra(sr)))>>
      IN \E f \in Fails(ops) :
           /\ Block(ops, f, Raised("RuntimeError", "run_suite"), next)
           /\ suite_results' = IF f = 0 \/ f > 2
                               THEN Append(suite_results, sr)
                               ELSE suite_results
           /\ env' = IF f = 0 \/ f > 2
                     THEN [env EXCEPT ![cur].suite[suite] = Some(sr)]
                     ELSE env
    /\ UNCHANGED aside

\* lines 122-126
run_smoke ==
    /\ pc = "smoke"
    /\ RunSuiteBlock("run_smoke", "smoke",
                     IF runs[cur].suite \in {"regression", "both"}
                     THEN "regression" ELSE "triage_start")
    /\ UNCHANGED <<tables, queue, cur, bugs, idx, created, ninv>>

\* lines 128-132
run_regression ==
    /\ pc = "regression"
    /\ RunSuiteBlock("run_regression", "regression", "triage_start")
    /\ UNCHANGED <<tables, queue, cur, bugs, idx, created, ninv>>

\* ------------------------------------------------------------ triage
AdapterRaised == [t |-> "raise", v |-> NULL]
GoodBug(title, severity) ==
    PyDict([title |-> PyText(title), severity |-> PyStr(severity)])

\* what adapter.triage_failures does: it raises, or returns what json.loads
\* made of the response
TriageResponses ==
    << AdapterRaised,
       PyList(<<GoodBug(T_a, "major")>>),
       PyDict([bugs |-> PyList(<<>>)]),
       PyDict([bugs |-> PyText(<<120>>)]),
       PyDict([bugs |-> PyList(<<PyDict([title |-> PyInt(5)])>>)]),
       PyDict([bugs |-> PyList(<<GoodBug(<<32>> \o T_a, "critical")>>)]),
       PyDict([bugs |-> PyList(<<GoodBug(T_a \o <<32>>, "major"),
                                 GoodBug(T_a, "urgent")>>)]) >>

\* lines 143-147: the try around the adapter call and triage.get("bugs", [])
TriageCaught(resp) == resp.t # "dict"
TriageBugs(resp) ==
    IF TriageCaught(resp) THEN PyList(<<>>) ELSE Get(resp, "bugs", PyList(<<>>))

\* `for b in triage_bugs` raises TypeError unless the value is iterable;
\* iterating a str yields its characters, a dict its keys
Iterable(x) == x.t \in {"list", "text", "str", "dict"}
Items(x) ==
    CASE x.t = "list" -> x.v
      [] x.t = "text" -> [i \in 1..Len(x.v) |-> PyText(<<x.v[i]>>)]
      [] OTHER -> <<PyStr("key")>>

\* line 155: b.get needs a dict, .strip() a str
TitleRaises(b) ==
    \/ b.t # "dict"
    \/ Get(b, "title", PyText(<<>>)).t \notin {"text", "str"}

DefaultTitle(suite) == Str_default_head \o SuiteStr(suite) \o Str_default_tail

NormTitle(b, suite) ==
    LET stripped == strip(Get(b, "title", PyText(<<>>)).v)
    IN IF stripped # <<>> THEN stripped ELSE DefaultTitle(suite)

\* not the code: a message that leaves the suite out
BugIdMessageOfTitleOnly(suite, title) == title

\* line 156: f"{sr.suite}:{title}"
BugIdMessage(suite, title) == SuiteStr(suite) \o Str_colon \o title

\* the titles line 155 can produce from the model's responses and reports
TitlesIn(items, suite) ==
    {NormTitle(items[i], suite) : i \in {j \in 1..Len(items) : ~TitleRaises(items[j])}}

\* the titles a triage response may give a bug: empty, blank, padded, plain
RawTitles ==
    {<<>>, <<32>>, T_a, <<32>> \o T_a, T_a \o <<32>>, T_b, T_a \o T_b,
     T_a \o <<32>> \o T_b}

KnownTitles(suite) ==
    {NormTitle(GoodBug(t, "major"), suite) : t \in RawTitles} \cup
    UNION ({TitlesIn(Items(TriageBugs(TriageResponses[i])), suite) :
              i \in {j \in 1..Len(TriageResponses) :
                       Iterable(TriageBugs(TriageResponses[j]))}}
           \cup {TitlesIn(ExtractFromData(Reports[i], suite), suite) :
                   i \in 1..Len(Reports)})

\* the digests of the messages the model hashes, computed once
Sha1Table ==
    [m \in UNION {{BugIdMessage(suite, t) : t \in KnownTitles(suite)} :
                    suite \in {"smoke", "regression"}} |-> hexdigest12(m)]

\* line 156: hashlib.sha1(...).hexdigest()[:12]
bug_id_of(suite, title) ==
    LET m == BugIdMessage(suite, title)
    IN IF m \in DOMAIN Sha1Table THEN Sha1Table[m] ELSE hexdigest12(m)

\* lines 155-175
NormalizeBug(b, suite) ==
    [bug_id |-> bug_id_of(suite, NormTitle(b, suite)),
     test_type |-> suite,
     severity |-> Get(b, "severity", PyStr("major")).v,
     title |-> NormTitle(b, suite),
     confidence |-> 70]

NormalizeRaises(x) ==
    \/ ~Iterable(x)
    \/ \E i \in 1..Len(Items(x)) : TitleRaises(Items(x)[i])

\* the items the loop gets through before one raises
Normalizable(x) ==
    IF ~Iterable(x) THEN 0
    ELSE IF \A i \in 1..Len(Items(x)) : ~TitleRaises(Items(x)[i])
    THEN Len(Items(x))
    ELSE (CHOOSE i \in 1..Len(Items(x)) :
            /\ TitleRaises(Items(x)[i])
            /\ \A j \in 1..(i - 1) : ~TitleRaises(Items(x)[j])) - 1

NormalizeAll(x, suite) ==
    [i \in 1..Normalizable(x) |-> NormalizeBug(Items(x)[i], suite)]

\* line 135
triage_start ==
    /\ pc = "triage_start"
    /\ LET ops == <<Pub(publish_step("triage", "started", NoExtra))>>
       IN \E f \in Fails(ops) : Block(ops, f, RedisError, "triage_loop")
    /\ idx' = 1
    /\ UNCHANGED <<tables, queue, cur, suite_results, bugs, created, ninv, env>>
    /\ UNCHANGED aside

\* lines 137-175: one iteration of `for sr in suite_results`
triage_suite ==
    /\ pc = "triage_loop"
    /\ idx <= Len(suite_results)
    /\ LET sr == suite_results[idx] IN
       IF sr.ok
       THEN /\ idx' = idx + 1
            /\ UNCHANGED <<events, pc, exc, hist, nfaults, bugs, env>>
       ELSE \E i \in Answers(env[cur].triage[sr.suite], 1..Len(TriageResponses)) :
            /\ env' = [env EXCEPT ![cur].triage[sr.suite] = Some(i)]
            /\
              LET resp == TriageResponses[i]
                  fallback == ~Truthy(TriageBugs(resp))
                  triage_bugs ==
                      IF fallback
                      THEN PyList(extract_bugs_from_playwright_json(
                                      sr.results_json, sr.suite))
                      ELSE TriageBugs(resp)
                  ops == (IF TriageCaught(resp)
                          THEN <<Pub(publish_log(
                                       Msg("Claude Code triage failed", NULL),
                                       "triage", "info"))>>
                          ELSE <<>>)
                         \o (IF fallback
                             THEN <<Pub(publish_log(
                                          Msg("Using fallback bug extraction",
                                              sr.suite),
                                          "triage", "info"))>>
                             ELSE <<>>)
              IN \E f \in Fails(ops) :
                   IF f = 0 /\ NormalizeRaises(triage_bugs)
                   THEN /\ events' = events \o PublishedBefore(cur, ops, Len(ops))
                        /\ pc' = "except"
                        /\ exc' = Raised("AttributeError", "normalize")
                        /\ hist' = [hist EXCEPT !.faults = Append(@, "normalize")]
                        /\ bugs' = bugs \o NormalizeAll(triage_bugs, sr.suite)
                        /\ UNCHANGED <<nfaults, idx>>
                   ELSE /\ Block(ops, f, RedisError, "triage_loop")
                        /\ bugs' = IF f = 0
                                   THEN bugs \o NormalizeAll(triage_bugs, sr.suite)
                                   ELSE bugs
                        /\ idx' = IF f = 0 THEN idx + 1 ELSE idx
    /\ UNCHANGED <<tables, queue, cur, suite_results, created, ninv>>
    /\ UNCHANGED aside

\* lines 176-177
triage_end ==
    /\ pc = "triage_loop"
    /\ idx > Len(suite_results)
    /\ LET ops == <<Pub(publish_log(Msg("Triage produced", Len(bugs)), "triage", "info")),
                    Pub(publish_step("triage", "finished", [bugs |-> Len(bugs)]))>>
       IN \E f \in Fails(ops) : Block(ops, f, RedisError, "persist_bugs")
    /\ UNCHANGED <<tables, queue, cur, locals, ninv, env>>
    /\ UNCHANGED aside


\* ------------------------------------------------------------ persist
\* line 181: the Bug row of a bug dict
BugRow(run_id, b) ==
    [run_id |-> run_id, bug_id |-> b.bug_id, test_type |-> b.test_type,
     severity |-> b.severity, title |-> b.title, confidence |-> b.confidence,
     github_issue_url |-> None]

\* lines 180-201: every Bug is added, then one commit
persist_bugs ==
    /\ pc = "persist_bugs"
    /\ LET ops == <<Call("commit")>>
       IN \E f \in Fails(ops) :
            /\ Block(ops, f, CommitError, "persist_csv")
            /\ bug_rows' = IF f = 0
                           THEN bug_rows \o [i \in 1..Len(bugs) |-> BugRow(cur, bugs[i])]
                           ELSE bug_rows
    /\ UNCHANGED <<runs, artifacts, issues, queue, cur, locals, ninv, env>>
    /\ UNCHANGED aside

\* lines 203-206, and the test of line 209
persist_csv ==
    /\ pc = "persist_csv"
    /\ LET ops == <<Call("write_bugs_csv"), Call("commit")>>
       IN \E f \in Fails(ops) :
            /\ Block(ops, f,
                     IF f = 1 THEN Raised("OSError", "write_bugs_csv") ELSE CommitError,
                     IF runs[cur].create_github_issues = 1 /\ bugs # <<>>
                     THEN "issues_start" ELSE "finish")
            /\ artifacts' = IF f = 0
                            THEN Append(artifacts, [run_id |-> cur, type |-> "csv"])
                            ELSE artifacts
    /\ UNCHANGED <<runs, bug_rows, issues, queue, cur, locals, ninv, env>>
    /\ UNCHANGED aside

\* ------------------------------------------------------ issue filing
\* what create_or_comment_issue returns as url: "" (line 38: not a GitHub
\* repository; line 59: the response holds no html_url), the fake URL made
\* of the bug_id (line 43: no token), or the html_url of the issue the POST
\* created, a new one at each call (line 59)
IssueAnswers(earlier) ==
    IF earlier = <<>> THEN {"none", "fake", "html"}
    ELSE IF earlier[1] = "fake" THEN {"fake"}
    ELSE {"none", "html"}

IssueUrl(b, answer) ==
    IF answer = "fake" THEN <<"issue", b.bug_id, 0>>
    ELSE <<"issue", b.bug_id, Len(issues) + 1>>

\* line 219: .first() of the rows of this run with this bug_id
FirstBugRow(run_id, bug_id) ==
    LET hits == {i \in 1..Len(bug_rows) :
                   bug_rows[i].run_id = run_id /\ bug_rows[i].bug_id = bug_id}
    IN IF hits = {} THEN 0 ELSE CHOOSE i \in hits : \A j \in hits : i <= j

\* line 210
issues_start ==
    /\ pc = "issues_start"
    /\ LET ops == <<Pub(publish_step("github_issues", "started", NoExtra))>>
       IN \E f \in Fails(ops) : Block(ops, f, RedisError, "issues_loop")
    /\ idx' = 1
    /\ created' = 0
    /\ UNCHANGED <<tables, queue, cur, suite_results, bugs, ninv, env>>
    /\ UNCHANGED aside

\* lines 214-223: one iteration of `for b in bugs`
file_issue ==
    /\ pc = "issues_loop"
    /\ idx <= Len(bugs)
    /\ \E answer \in Answers(IF idx <= Len(env[cur].issue)
                               THEN Some(env[cur].issue[idx]) ELSE None,
                               IssueAnswers(env[cur].issue)) :
         LET b == bugs[idx]
             has_url == answer # "none"
             ops == <<Call("create_or_comment_issue")>>
                    \o (IF has_url THEN <<Call("commit")>> ELSE <<>>)
             row == FirstBugRow(cur, b.bug_id)
         IN \E f \in Fails(ops) :
              /\ Block(ops, f,
                       IF f = 1 THEN Raised("HTTPStatusError", "create_or_comment_issue")
                       ELSE CommitError,
                       "issues_loop")
              /\ idx' = IF f = 0 THEN idx + 1 ELSE idx
              /\ created' = IF has_url /\ f # 1 THEN created + 1 ELSE created
              /\ env' = IF f # 1 /\ idx > Len(env[cur].issue)
                        THEN [env EXCEPT ![cur].issue = Append(@, answer)]
                        ELSE env
              /\ IF has_url /\ f = 0
                 THEN /\ bug_rows' = IF row = 0 THEN bug_rows
                                     ELSE [bug_rows EXCEPT ![row].github_issue_url =
                                                               Some(IssueUrl(b, answer))]
                      /\ issues' = Append(issues, [run_id |-> cur, bug_id |-> b.bug_id,
                                                   issue_url |-> IssueUrl(b, answer)])
                 ELSE UNCHANGED <<bug_rows, issues>>
    /\ UNCHANGED <<runs, artifacts, queue, cur, suite_results, bugs, ninv>>
    /\ UNCHANGED aside

\* line 226
issues_end ==
    /\ pc = "issues_loop"
    /\ idx > Len(bugs)
    /\ LET ops == <<Pub(publish_step("github_issues", "finished",
                                     [issues_created |-> created]))>>
       IN \E f \in Fails(ops) : Block(ops, f, RedisError, "finish")
    /\ UNCHANGED <<tables, queue, cur, locals, ninv, env>>
    /\ UNCHANGED aside

\* ------------------------------------------------------------- finish
\* not the code: a summary that lists the suites newest first
SummaryNewestFirst ==
    [suites |-> [i \in 1..Len(suite_results) |->
                   LET sr == suite_results[Len(suite_results) + 1 - i]
                   IN [suite |-> sr.suite, ok |-> sr.ok, exit_code |-> sr.exit_code]],
     bugs |-> Len(bugs)]

\* lines 231-234
Summary ==
    [suites |-> [i \in 1..Len(suite_results) |->
                   [suite |-> suite_results[i].suite, ok |-> suite_results[i].ok,
                    exit_code |-> suite_results[i].exit_code]],
     bugs |-> Len(bugs)]

\* not the code: a finish that fails the run when a suite was not ok
MarkSucceededOnlyIfAllOk(run, now, summary) ==
    IF \E i \in 1..Len(summary.suites) : ~summary.suites[i].ok
    THEN [run EXCEPT !.status = "failed", !.finished_at = Some(now)]
    ELSE [run EXCEPT !.status = "succeeded", !.finished_at = Some(now),
                     !.summary_json = Some(summary)]

\* the assignments of lines 229-234
MarkSucceeded(run, now, summary) ==
    [run EXCEPT !.status = "succeeded", !.finished_at = Some(now),
                !.summary_json = Some(summary)]

\* the assignments of lines 239-241 and 246-249
MarkFailed(run, now, message) ==
    [run EXCEPT !.status = "failed", !.finished_at = Some(now),
                !.error_message = Some(message)]

\* lines 229-237
finish ==
    /\ pc = "finish"
    /\ LET ops == <<Call("commit"),
                    Pub(publish_step("done", "finished", [status |-> "succeeded"]))>>
       IN \E f \in Fails(ops) :
            /\ runs' = IF f # 1
                       THEN [runs EXCEPT ![cur] = MarkSucceeded(@, ninv, Summary)]
                       ELSE runs
            /\ IF f = 0
               THEN /\ events' = events \o PublishedBefore(cur, ops, Len(ops))
                    /\ pc' = "idle"
                    /\ hist' = [hist EXCEPT !.outcome = "returned"]
                    /\ FreshLocals
                    /\ UNCHANGED <<exc, nfaults>>
               ELSE /\ Block(ops, f, CommitError, "idle")
                    /\ UNCHANGED locals
    /\ UNCHANGED <<bug_rows, artifacts, issues, queue, cur, ninv, env>>
    /\ UNCHANGED aside

ErrorMessage(e) ==
    IF e.cls = "CalledProcessError" THEN CommandFailed(e) ELSE WithTraceback(e)

\* lines 238-252: either except clause; what it raises leaves _process_run
except_clause ==
    /\ pc = "except"
    /\ LET message == ErrorMessage(exc)
           ops == <<Call("commit"),
                    Pub(publish_step("done", "finished", [status |-> "failed"])),
                    Pub(publish_log(message, "error", "error"))>>
       IN \E f \in Fails(ops) :
            /\ events' = events \o PublishedBefore(cur, ops, Done(ops, f))
            /\ runs' = IF f # 1
                       THEN [runs EXCEPT ![cur] = MarkFailed(@, ninv, message)]
                       ELSE runs
            /\ pc' = "idle"
            /\ IF f = 0
               THEN /\ hist' = [hist EXCEPT !.outcome = "returned"]
                    /\ UNCHANGED <<exc, nfaults>>
               ELSE /\ hist' = [hist EXCEPT
                                  !.outcome = "raised",
                                  !.faults = Append(@, ExcOf(ops, f, CommitError).what)]
                    /\ exc' = ExcOf(ops, f, CommitError)
                    /\ nfaults' = nfaults + 1
    /\ FreshLocals
    /\ UNCHANGED <<bug_rows, artifacts, issues, queue, cur, ninv, env>>
    /\ UNCHANGED aside

\* --------------------------------------------------------------- Next
Next ==
    \/ \E id \in RunIds, suite \in SuiteChoices, flag \in {0, 1} :
         create_run(id, suite, flag)
    \/ \E id \in TaskIds : send_task(id)
    \/ process_run_missing
    \/ process_run_begin
    \/ setup_dirs
    \/ clone_repo
    \/ analyze_repo
    \/ generate_tests_docs
    \/ run_smoke
    \/ run_regression
    \/ triage_start
    \/ triage_suite
    \/ triage_end
    \/ persist_bugs
    \/ persist_csv
    \/ issues_start
    \/ file_issue
    \/ issues_end
    \/ finish
    \/ except_clause

Spec == Init /\ [][Next]_allvars

\* ------------------------------------- the fallback extractor on its own
\* _extract_bugs_from_playwright_json applied to one parsed report.  The
\* reports: one top-level suite (a test file) whose test has up to
\* MaxTopResults results and which may hold one child suite (a describe
\* block) whose test has up to MaxChildResults results.
MaxTopResults == 2
MaxChildResults == 1
Statuses == {"passed", "failed", "timedOut", "skipped"}
ResultLists(n) == UNION {[1..k -> Statuses] : k \in 0..n}
MkResults(statuses) == [i \in 1..Len(statuses) |-> Result(statuses[i])]

NestedReport(top, child) ==
    Report(<<SuiteOf(
               <<SpecOf(T_login, <<Test(T_a, MkResults(top))>>)>>,
               IF child = None THEN <<>>
               ELSE <<SuiteOf(<<SpecOf(T_login, <<Test(T_b, MkResults(child[1]))>>)>>,
                              <<>>)>>)>>)

ExtractorInputs ==
    {[data |-> NestedReport(top, child), suite |-> suite] :
       top \in ResultLists(MaxTopResults),
       child \in {None} \cup {Some(rs) : rs \in ResultLists(MaxChildResults)},
       suite \in {"smoke", "regression"}}

not_fx == <<vars, suite_vars, bus_vars, wm_vars, api_vars, inst_vars>>

InitExtract ==
    /\ InitOrchestrator
    /\ InitServices
    /\ fx_in \in {Some(x) : x \in ExtractorInputs}
    /\ fx_out = None

\* lines 38-64 and 67 on the report read from results_json
ApplyExtract ==
    /\ fx_out = None
    /\ fx_out' = Some(ExtractFromData(fx_in[1].data, fx_in[1].suite))
    /\ UNCHANGED <<not_fx, fx_in>>

SpecExtract == InitExtract /\ [][ApplyExtract]_allvars

\* ------------------------------------------- bug normalisation on its own
\* lines 154-175 applied to one bug of a triage response, in some run at
\* some time: fx_out collects the passes made, each with what it was given.
MaxPasses == 2
PassRuns == {"r1", "r2"}
PassTimes == {1, 2}

InitBugId ==
    /\ InitOrchestrator
    /\ InitServices
    /\ fx_in = None
    /\ fx_out = {}

TriagePass(run_id, now, suite, title, severity) ==
    /\ Cardinality(fx_out) < MaxPasses
    /\ fx_in' = Some(GoodBug(title, severity))
    /\ fx_out' = fx_out \cup
                   {[run_id |-> run_id, now |-> now, suite |-> suite,
                     given |-> GoodBug(title, severity),
                     bug |-> NormalizeBug(GoodBug(title, severity), suite)]}
    /\ UNCHANGED not_fx

NextBugId ==
    \E run_id \in PassRuns, now \in PassTimes, suite \in {"smoke", "regression"},
       title \in RawTitles, severity \in {"major", "minor"} :
         TriagePass(run_id, now, suite, title, severity)

SpecBugId == InitBugId /\ [][NextBugId]_allvars

\* ------------------------------------------- PlaywrightRunner.run_suite
\* Two workers on one host call run_suite at the same time.  A process
\* started with Popen(cmd, shell=True) is the shell `sh`; the command it
\* runs is `cmd`: the shell either replaces itself by the command
\* (forked = FALSE, one process) or stays its parent (forked = TRUE).
\* terminate() and kill() signal the process Popen holds, the shell.
not_suite == <<vars, fx, bus_vars, wm_vars, api_vars, inst_vars>>

Popen(forked) == [sh |-> "running", cmd |-> "running", forked |-> forked]
Exited(p) == [p EXCEPT !.sh = "exited", !.cmd = "exited"]

\* SIGKILL to the process Popen holds
Sigkill(p) ==
    IF p.sh # "running" THEN p
    ELSE [p EXCEPT !.sh = "exited",
                   !.cmd = IF p.forked THEN @ ELSE "exited"]

\* the port is released when the server command that listens on it is gone
Release(c, server) ==
    [p \in Ports |-> IF host[p] = c /\ server.cmd # "running"
                     THEN "free" ELSE host[p]]

Frame(c, f) == calls' = [calls EXCEPT ![c] = f]
At(c, label) == calls[c].pc = label

\* an exception leaves run_suite before the try of line 213
RaiseOut(c, e) == Frame(c, [calls[c] EXCEPT !.pc = "done", !.exc = e])
\* an exception inside the try: the finally of line 277 runs first
RaiseIn(c, e) == Frame(c, [calls[c] EXCEPT !.pc = "finally", !.exc = e])

\* lines 188-190
rs_begin(c) ==
    /\ At(c, "idle")
    /\ \/ Frame(c, [calls[c] EXCEPT !.pc = "install"])
       \/ RaiseOut(c, "FileNotFoundError")
    /\ UNCHANGED <<host, not_suite>>

\* line 192, _install_deps (171-185)
rs_install_deps(c) ==
    /\ At(c, "install")
    /\ \/ Frame(c, [calls[c] EXCEPT !.pc = "port"])
       \/ RaiseOut(c, "RuntimeError")
    /\ UNCHANGED <<host, not_suite>>

\* line 194, _find_free_port (54-57): bind port 0, read the port the system
\* assigned, and close the socket on leaving the `with`
rs_find_free_port(c) ==
    /\ At(c, "port")
    /\ IF \E p \in Ports : host[p] = "free"
       THEN \E p \in {q \in Ports : host[q] = "free"} :
              Frame(c, [calls[c] EXCEPT !.pc = "default_start", !.port = p])
       ELSE RaiseOut(c, "OSError")
    /\ UNCHANGED <<host, not_suite>>

\* line 195, _default_start (118-148)
rs_default_start(c) ==
    /\ At(c, "default_start")
    /\ \/ Frame(c, [calls[c] EXCEPT !.pc = "start"])
       \/ RaiseOut(c, "RuntimeError")
    /\ UNCHANGED <<host, not_suite>>

\* line 211, _start_server (92-96)
rs_start_server(c) ==
    /\ At(c, "start")
    /\ \/ \E forked \in BOOLEAN :
            Frame(c, [calls[c] EXCEPT !.pc = "probe", !.server = Popen(forked)])
       \/ RaiseOut(c, "OSError")
    /\ UNCHANGED <<host, not_suite>>

\* the server command binds the port it was given, or finds it taken and exits
server_binds(c) ==
    /\ calls[c].server.cmd = "running"
    /\ ~calls[c].bound
    /\ calls[c].pc \in {"probe", "tests", "run", "wait_runner", "collect", "finally"}
    /\ IF host[calls[c].port] = "free"
       THEN /\ host' = [host EXCEPT ![calls[c].port] = c]
            /\ Frame(c, [calls[c] EXCEPT !.bound = TRUE])
       ELSE /\ Frame(c, [calls[c] EXCEPT !.server = Exited(@)])
            /\ UNCHANGED host
    /\ UNCHANGED not_suite

\* lines 214-215, _wait_http_ok (99-110): True when whoever listens on the
\* port answers with a status below 500 before the timeout
rs_wait_http_ok(c) ==
    /\ At(c, "probe")
    /\ \/ /\ host[calls[c].port] # "free"
          /\ Frame(c, [calls[c] EXCEPT !.pc = "tests"])
       \/ RaiseIn(c, "RuntimeError: UI server did not become ready")
    /\ UNCHANGED <<host, not_suite>>

\* lines 219-228: test folder, its dependencies, the output directory
rs_prepare_tests(c) ==
    /\ At(c, "tests")
    /\ \/ Frame(c, [calls[c] EXCEPT !.pc = "run"])
       \/ \E e \in {"FileNotFoundError", "RuntimeError", "OSError"} : RaiseIn(c, e)
    /\ UNCHANGED <<host, not_suite>>

\* line 255, _run (73-84): the test runner is started
rs_run_launch(c) ==
    /\ At(c, "run")
    /\ \E forked \in BOOLEAN :
         Frame(c, [calls[c] EXCEPT !.pc = "wait_runner", !.runner = Popen(forked)])
    /\ UNCHANGED <<host, not_suite>>

\* line 86: the test runner exits within timeout_s
rs_run_exit(c, code) ==
    /\ At(c, "wait_runner")
    /\ Frame(c, [calls[c] EXCEPT !.pc = "collect", !.runner = Exited(@),
                                 !.code = code])
    /\ UNCHANGED <<host, not_suite>>

\* lines 87-89: TimeoutExpired, proc.kill(), return 124
rs_run_timeout(c) ==
    /\ At(c, "wait_runner")
    /\ Frame(c, [calls[c] EXCEPT !.pc = "collect", !.runner = Sigkill(@),
                                 !.code = TimeoutExit])
    /\ UNCHANGED <<host, not_suite>>

\* lines 258-276: results, artifacts copy (can raise), the SuiteResult
rs_collect(c) ==
    /\ At(c, "collect")
    /\ \/ Frame(c, [calls[c] EXCEPT
                      !.pc = "finally",
                      !.ret = Some(SuiteResult("smoke", calls[c].code, NoReport))])
       \/ RaiseIn(c, "OSError")
    /\ UNCHANGED <<host, not_suite>>

\* lines 279-281: server.terminate() sends SIGTERM to the shell, then
\* server.wait(timeout=10) returns or raises TimeoutExpired
rs_terminate(c) ==
    /\ At(c, "finally")
    /\ LET server == calls[c].server IN
       \E after \in
            IF server.sh # "running" THEN {server}
            ELSE IF server.forked
            THEN {[server EXCEPT !.sh = "exited"], Exited(server)}
            ELSE {server, Exited(server)} :
         /\ Frame(c, [calls[c] EXCEPT
                        !.server = after,
                        !.pc = IF after.sh = "running" THEN "kill" ELSE "done"])
         /\ host' = Release(c, after)
    /\ UNCHANGED not_suite

\* lines 282-285: server.kill()
rs_kill(c) ==
    /\ At(c, "kill")
    /\ Frame(c, [calls[c] EXCEPT !.server = Sigkill(@), !.pc = "done"])
    /\ host' = Release(c, Sigkill(calls[c].server))
    /\ UNCHANGED not_suite

\* another process of the host binds a free port, or closes it
other_binds(p) ==
    /\ host[p] = "free"
    /\ host' = [host EXCEPT ![p] = "other"]
    /\ UNCHANGED <<calls, not_suite>>

other_releases(p) ==
    /\ host[p] = "other"
    /\ host' = [host EXCEPT ![p] = "free"]
    /\ UNCHANGED <<calls, not_suite>>

NextSuite ==
    \/ \E c \in Callers :
         \/ rs_begin(c)
         \/ rs_install_deps(c)
         \/ rs_find_free_port(c)
         \/ rs_default_start(c)
         \/ rs_start_server(c)
         \/ server_binds(c)
         \/ rs_wait_http_ok(c)
         \/ rs_prepare_tests(c)
         \/ rs_run_launch(c)
         \/ \E code \in {0, 1} : rs_run_exit(c, code)
         \/ rs_run_timeout(c)
         \/ rs_collect(c)
         \/ rs_terminate(c)
         \/ rs_kill(c)
    \/ \E p \in Ports : other_binds(p) \/ other_releases(p)

SpecSuite == Init /\ [][NextSuite]_allvars

\* ---------------------------------------------------------- event bus
\* publish_event publishes on the Redis channel of the run; stream_events
\* subscribes a new connection to that channel and yields, as server-sent
\* events, the messages the connection is sent from then on.  Redis keeps
\* nothing: a message goes to the connections subscribed when it is published.
not_bus == <<vars, fx, suite_vars, wm_vars, api_vars, inst_vars>>
MaxEvents == 3
BusRuns == {"rA", "rB"}

\* not the code: one channel for every run
ChannelOfAllRuns(run_id) == <<"uiqa:events:", "all">>

\* events.py line 10 and main.py line 104: f"uiqa:events:{run_id}"
Channel(run_id) == <<"uiqa:events:", run_id>>

\* main.py line 113: f"data: {data}\n\n"
Sse(data) == <<"data: ", data>>

\* not the code: a subscription that is first sent what was published before
SubscribedWithReplay(run_id) ==
    [state |-> "open", run_id |-> run_id, channel |-> Channel(run_id),
     since |-> Len(bus.log),
     inbox |-> [n \in 1..Len(bus.log) |-> n], received |-> <<>>]

\* main.py line 105, pubsub.subscribe(channel): a fresh connection
Subscribed(run_id) ==
    [state |-> "open", run_id |-> run_id, channel |-> Channel(run_id),
     since |-> Len(bus.log), inbox |-> <<>>, received |-> <<>>]

\* what r.publish(channel, message) does to one connection: the message, here
\* its position in the log, is queued for it when it is subscribed to the channel
Deliver(sub, channel, n) ==
    IF sub.state = "open" /\ sub.channel = channel
    THEN [sub EXCEPT !.inbox = Append(@, n)]
    ELSE sub

\* events.py lines 8-10
bus_publish(run_id, payload) ==
    /\ Len(bus.log) < MaxEvents
    /\ LET n == Len(bus.log) + 1 IN
       bus' = [log |-> Append(bus.log, [run_id |-> run_id,
                                        channel |-> Channel(run_id),
                                        data |-> payload]),
               subs |-> [s \in Subscribers |->
                           Deliver(bus.subs[s], Channel(run_id), n)]]
    /\ UNCHANGED not_bus

\* main.py lines 101-105
stream_events(s, run_id) ==
    /\ bus.subs[s].state # "open"
    /\ bus' = [bus EXCEPT !.subs[s] = Subscribed(run_id)]
    /\ UNCHANGED not_bus

\* main.py lines 109-113: the generator takes the next message and yields it
bus_listen(s) ==
    /\ bus.subs[s].state = "open"
    /\ bus.subs[s].inbox # <<>>
    /\ bus' = [bus EXCEPT !.subs[s].inbox = Tail(@),
                          !.subs[s].received =
                              Append(@, [n |-> Head(bus.subs[s].inbox),
                                         text |-> Sse(bus.log[Head(bus.subs[s].inbox)].data)])]
    /\ UNCHANGED not_bus

\* the client goes away: the connection and what was queued for it are dropped
bus_disconnect(s) ==
    /\ bus.subs[s].state = "open"
    /\ bus' = [bus EXCEPT !.subs[s].state = "closed", !.subs[s].inbox = <<>>]
    /\ UNCHANGED not_bus

NextBus ==
    \/ \E run_id \in BusRuns, step \in {"clone_repo", "done"} :
         bus_publish(run_id, publish_step(step, "finished", NoExtra))
    \/ \E s \in Subscribers, run_id \in BusRuns : stream_events(s, run_id)
    \/ \E s \in Subscribers : bus_listen(s)
    \/ \E s \in Subscribers : bus_disconnect(s)

SpecBus == Init /\ [][NextBus]_allvars

\* ---------------------------------------------------------------------
\* Worker manager (services/worker_manager.py).  The endpoints of main.py
\* 132-169 are plain `def`s, which the framework runs on pool threads, so
\* two calls on the singleton interleave between their reads and writes
\* of its attributes.  reqs[t] is the frame of thread t's call; its field
\* seen holds the worker process the call met: for start and status the
\* longest-running one alive when the call began, for stop the one it
\* found at line 184; its field spawned holds the process its Popen made.
\* ---------------------------------------------------------------------
not_wm == <<vars, fx, suite_vars, bus_vars, api_vars, inst_vars>>

MaxSpawns == 3                      \* worker processes spawned in all
MaxLines == 1                       \* output lines read in all
LogCapacity == 500                  \* deque(maxlen=500), line 55
TailLines == 100                    \* [-100:], line 104
Modes == {"local", "docker"}
Ops == {"start", "stop", "status"}

Pids == 1..Len(workers)
LivePids == {p \in Pids : workers[p].alive}

\* the lines the reader threads of processes 1..n have read
RECURSIVE LinesRead(_)
LinesRead(n) == IF n = 0 THEN 0 ELSE workers[n].lines + LinesRead(n - 1)

\* the longest-running live worker process, if there is one
Eldest ==
    IF LivePids = {} THEN None
    ELSE Some(CHOOSE p \in LivePids : \A q \in LivePids : p <= q)

\* not the code: a buffer without a capacity
DequeAppendUnbounded(q, x) == Append(q, x)

\* deque.append with maxlen (line 77)
DequeAppend(q, x) ==
    IF Len(q) >= LogCapacity THEN Append(Tail(q), x) ELSE Append(q, x)

\* list(self._logs)[-n:]  (lines 104, 208): the slice starts at index -n,
\* and -0 is 0, the start of the list; a negative n gives the start |n|
LastLines(q, n) ==
    IF n = 0 THEN q
    ELSE IF n < 0 THEN SubSeq(q, 1 - n, Len(q))
    ELSE IF Len(q) <= n THEN q
    ELSE SubSeq(q, Len(q) - n + 1, Len(q))

AlreadyRunning == [success |-> FALSE, error |-> "Worker is already running"]
Failure(e) == [success |-> FALSE, error |-> e]
Started(pid, mode) == [success |-> TRUE, pid |-> pid, mode |-> mode]
Stopped == [success |-> TRUE]
Unhandled(e) == [raised |-> e]

\* WorkerStatus(...) of lines 99-105
WorkerStatus(running, pid) ==
    [running |-> running, mode |-> wm.mode, pid |-> pid,
     uptime |-> IF running THEN wm.start_time ELSE None,
     log_tail |-> LastLines(wm.logs, TailLines)]

\* the call returns: its frame is gone, the response is what is left
Return(t, result) ==
    reqs' = [reqs EXCEPT ![t] = [NoRequest EXCEPT !.result = Some(result)]]

Goto(t, label) == reqs' = [reqs EXCEPT ![t].pc = label]

\* what get_status's caller does with a status that is not running:
\* the status endpoint returns it, start goes on to line 118
NotRunning(t) ==
    IF reqs[t].op = "status"
    THEN Return(t, WorkerStatus(FALSE, None))
    ELSE Goto(t, "start_prepare")

\* a request arrives at one of the three endpoints (main.py 132-163)
wm_call(t, op, mode) ==
    /\ reqs[t].pc = "idle"
    /\ reqs' = [reqs EXCEPT ![t] =
                  [pc |-> IF op = "stop" THEN "stop_check" ELSE "gs_read",
                   op |-> op, mode |-> IF op = "start" THEN mode ELSE NULL,
                   seen |-> IF op = "stop" THEN None ELSE Eldest,
                   spawned |-> None, result |-> None]]
    /\ UNCHANGED <<wm, workers, not_wm>>

\* get_status line 87: if self._process
gs_read(t) ==
    /\ reqs[t].pc = "gs_read"
    /\ IF wm.process = None THEN NotRunning(t) ELSE Goto(t, "gs_poll")
    /\ UNCHANGED <<wm, workers, not_wm>>

\* get_status lines 88-93 and the return of 99-105 when the process runs;
\* self._process is read again, and None has no poll()
gs_poll(t) ==
    /\ reqs[t].pc = "gs_poll"
    /\ IF wm.process = None
       THEN Return(t, Unhandled("AttributeError"))
       ELSE LET p == wm.process[1] IN
            IF workers[p].alive
            THEN IF reqs[t].op = "status"
                 THEN Return(t, WorkerStatus(TRUE, Some(p)))
                 ELSE Return(t, AlreadyRunning)          \* lines 115-116
            ELSE Goto(t, "gs_clear")
    /\ UNCHANGED <<wm, workers, not_wm>>

\* get_status lines 96-97: the process has ended
gs_clear(t) ==
    /\ reqs[t].pc = "gs_clear"
    /\ wm' = [wm EXCEPT !.process = None, !.start_time = None]
    /\ IF reqs[t].op = "status"
       THEN Return(t, WorkerStatus(FALSE, None))
       ELSE Goto(t, "start_prepare")
    /\ UNCHANGED <<workers, not_wm>>

\* start lines 118-147; whether the venv holds a celery binary is the
\* installation's
start_prepare(t, celery_found) ==
    /\ reqs[t].pc = "start_prepare"
    /\ wm' = [wm EXCEPT !.mode = reqs[t].mode, !.logs = <<>>,
                        !.stop_logging = FALSE]
    /\ IF celery_found
       THEN Goto(t, "start_spawn")
       ELSE Return(t, Failure("Celery not found in venv"))
    /\ UNCHANGED <<workers, not_wm>>

\* start lines 157-170: Popen, start time, reader thread; Popen raising
\* (no such command) is caught at 179
start_spawn(t, popen_ok) ==
    /\ reqs[t].pc = "start_spawn"
    /\ IF popen_ok
       THEN /\ Len(workers) < MaxSpawns
            /\ LET p == Len(workers) + 1 IN
               /\ workers' = Append(workers,
                               [alive |-> TRUE, lines |-> 0, reading |-> TRUE])
               /\ wm' = [wm EXCEPT !.process = Some(p), !.start_time = Some(p)]
            /\ reqs' = [reqs EXCEPT ![t].pc = "start_confirm",
                                    ![t].spawned = Some(Len(workers) + 1)]
       ELSE /\ Return(t, Failure("FileNotFoundError"))
            /\ UNCHANGED <<wm, workers>>
    /\ UNCHANGED not_wm

\* start lines 173-180, after the sleep
start_confirm(t) ==
    /\ reqs[t].pc = "start_confirm"
    /\ IF wm.process = None
       THEN Return(t, Failure("AttributeError"))
       ELSE LET p == wm.process[1] IN
            IF ~workers[p].alive
            THEN Return(t, [success |-> FALSE,
                            error |-> "Worker failed to start",
                            logs |-> wm.logs])
            ELSE Return(t, Started(p, reqs[t].mode))
    /\ UNCHANGED <<wm, workers, not_wm>>

\* stop lines 184-185
stop_check(t) ==
    /\ reqs[t].pc = "stop_check"
    /\ IF wm.process = None
       THEN Return(t, Failure("Worker is not running"))
       ELSE reqs' = [reqs EXCEPT ![t].pc = "stop_terminate",
                                 ![t].seen = wm.process]
    /\ UNCHANGED <<wm, workers, not_wm>>

\* stop lines 188-194: SIGTERM, then wait(10), which the process either
\* meets by exiting or not
stop_terminate(t, exits) ==
    /\ reqs[t].pc = "stop_terminate"
    /\ wm' = [wm EXCEPT !.stop_logging = TRUE]
    /\ IF wm.process = None
       THEN /\ Return(t, Failure("AttributeError"))
            /\ UNCHANGED workers
       ELSE LET p == wm.process[1] IN
            IF exits \/ ~workers[p].alive
            THEN /\ workers' = [workers EXCEPT ![p].alive = FALSE]
                 /\ Goto(t, "stop_clear")
            ELSE /\ Goto(t, "stop_kill")
                 /\ UNCHANGED workers
    /\ UNCHANGED not_wm

\* stop lines 196-197: SIGKILL and wait(5)
stop_kill(t) ==
    /\ reqs[t].pc = "stop_kill"
    /\ IF wm.process = None
       THEN /\ Return(t, Failure("AttributeError"))
            /\ UNCHANGED workers
       ELSE /\ workers' = [workers EXCEPT ![wm.process[1]].alive = FALSE]
            /\ Goto(t, "stop_clear")
    /\ UNCHANGED <<wm, not_wm>>

\* stop lines 199-201
stop_clear(t) ==
    /\ reqs[t].pc = "stop_clear"
    /\ wm' = [wm EXCEPT !.process = None, !.start_time = None]
    /\ Return(t, Stopped)
    /\ UNCHANGED <<workers, not_wm>>

\* the worker process ends by itself
worker_exits(p) ==
    /\ workers[p].alive
    /\ workers' = [workers EXCEPT ![p].alive = FALSE]
    /\ UNCHANGED <<wm, reqs, not_wm>>

\* _read_logs lines 73-77: one readline of the process's reader thread,
\* which also returns what a process that ended left in the pipe; with the
\* stop flag set the reader breaks and reads no more
read_logs(p) ==
    /\ workers[p].reading
    /\ LinesRead(Len(workers)) < MaxLines
    /\ workers' = [workers EXCEPT ![p].lines = @ + 1,
                                  ![p].reading = ~wm.stop_logging]
    /\ wm' = IF wm.stop_logging THEN wm
             ELSE [wm EXCEPT !.logs = DequeAppend(@, p)]
    /\ UNCHANGED <<reqs, not_wm>>

NextWm ==
    \/ \E t \in Threads, op \in Ops, mode \in Modes : wm_call(t, op, mode)
    \/ \E t \in Threads : gs_read(t)
    \/ \E t \in Threads : gs_poll(t)
    \/ \E t \in Threads : gs_clear(t)
    \/ \E t \in Threads, celery_found \in BOOLEAN :
         start_prepare(t, celery_found)
    \/ \E t \in Threads, popen_ok \in BOOLEAN : start_spawn(t, popen_ok)
    \/ \E t \in Threads : start_confirm(t)
    \/ \E t \in Threads : stop_check(t)
    \/ \E t \in Threads, exits \in BOOLEAN : stop_terminate(t, exits)
    \/ \E t \in Threads : stop_kill(t)
    \/ \E t \in Threads : stop_clear(t)
    \/ \E p \in Pids : worker_exits(p)
    \/ \E p \in Pids : read_logs(p)

SpecWm == Init /\ [][NextWm]_allvars

\* The same manager when nobody calls stop: every worker process that has
\* ended has exited on its own.
NextObserve ==
    \/ \E t \in Threads, op \in Ops \ {"stop"}, mode \in Modes :
         wm_call(t, op, mode)
    \/ \E t \in Threads : gs_read(t)
    \/ \E t \in Threads : gs_poll(t)
    \/ \E t \in Threads : gs_clear(t)
    \/ \E t \in Threads, celery_found \in BOOLEAN :
         start_prepare(t, celery_found)
    \/ \E t \in Threads, popen_ok \in BOOLEAN : start_spawn(t, popen_ok)
    \/ \E t \in Threads : start_confirm(t)
    \/ \E p \in Pids : worker_exits(p)
    \/ \E p \in Pids : read_logs(p)

SpecObserve == Init /\ [][NextObserve]_allvars

\* --- the log buffer on its own: a reader thread appends the lines of a
\* worker, numbered in the order they arrive, and one API thread asks for
\* the status and for the logs.  list(self._logs) and the slice are one
\* call: the response is what it returned, whatever arrives later, so the
\* next line is read once the response is sent.
MaxLogLines == 503                  \* lines the reader reads in all
LogThread == "t1"
LinesAsked == {0, 1, TailLines, LogCapacity + TailLines}

NextLine == IF wm.logs = <<>> THEN 1 ELSE wm.logs[Len(wm.logs)] + 1

\* get_logs, lines 206-208
get_logs(lines) == LastLines(wm.logs, lines)

\* _read_logs, line 77
logs_read_line ==
    /\ reqs[LogThread].result = None
    /\ NextLine <= MaxLogLines
    /\ wm' = [wm EXCEPT !.logs = DequeAppend(@, NextLine)]
    /\ UNCHANGED <<reqs, workers, not_wm>>

\* GET /api/worker/status with no worker process: lines 87 and 99-105
logs_get_status ==
    /\ reqs[LogThread].result = None
    /\ Return(LogThread, WorkerStatus(FALSE, None))
    /\ UNCHANGED <<wm, workers, not_wm>>

\* GET /api/worker/logs?lines=n: main.py 166-169
logs_get_logs(lines) ==
    /\ reqs[LogThread].result = None
    /\ Return(LogThread, [asked |-> lines, logs |-> get_logs(lines)])
    /\ UNCHANGED <<wm, workers, not_wm>>

\* the response is sent
logs_respond ==
    /\ reqs[LogThread].result # None
    /\ reqs' = [reqs EXCEPT ![LogThread] = NoRequest]
    /\ UNCHANGED <<wm, workers, not_wm>>

NextLogs ==
    \/ logs_read_line
    \/ logs_get_status
    \/ \E lines \in LinesAsked : logs_get_logs(lines)
    \/ logs_respond

SpecLogs == Init /\ [][NextLogs]_allvars

\* ---------------------------------------------------------------------
\* Run submission (main.py 38-57).  The endpoint runs on a pool thread:
\* between its commit and its send_task the task consumer and other
\* submissions take steps.
\* ---------------------------------------------------------------------
\* not the code: the id is sent to the queue before the row is committed
SubmitOrderEnqueueFirst == <<"enqueue", "commit">>

\* main.py 52-54, then 56
SubmitOrder == <<"commit", "enqueue">>

SubmitIds == {"r1", "r2"}           \* values uuid4 can return

\* _run_out(run) of line 57, from the attributes loaded at line 54
RunOut(f) == [id |-> f.run_id, status |-> f.row[1].status]

\* the endpoint returns once both operations are done
Respond(f) ==
    IF f.done = Len(SubmitOrder)
    THEN [f EXCEPT !.pc = "idle", !.response = Some(RunOut(f))]
    ELSE f

\* lines 40-51: a fresh id, the Run object with status queued
submit_begin(c, run_id, suite, flag) ==
    /\ api[c].pc = "idle"
    /\ run_id \notin DOMAIN runs
    /\ \A d \in Clients : api[d].run_id # run_id
    /\ api' = [api EXCEPT ![c] =
                 [pc |-> "open", done |-> 0, run_id |-> run_id,
                  suite |-> suite, flag |-> flag, row |-> None,
                  response |-> None]]
    /\ UNCHANGED <<vars, fx, suite_vars, bus_vars, wm_vars, inst_vars>>

\* lines 52-54: db.add, db.commit, db.refresh
submit_commit(c) ==
    /\ api[c].pc = "open"
    /\ SubmitOrder[api[c].done + 1] = "commit"
    /\ LET run_id == api[c].run_id
           row == NewRun(api[c].suite, api[c].flag) IN
       /\ runs' = [r \in DOMAIN runs \cup {run_id} |->
                     IF r = run_id THEN row ELSE runs[r]]
       /\ env' = [r \in DOMAIN runs \cup {run_id} |->
                    IF r = run_id THEN NoAnswers ELSE env[r]]
       /\ api' = [api EXCEPT ![c] =
                    Respond([@ EXCEPT !.done = @ + 1, !.row = Some(row)])]
    /\ UNCHANGED <<bug_rows, artifacts, issues, queue, events, pc, cur,
                   locals, exc, ninv, nfaults, hist>>
    /\ UNCHANGED <<fx, suite_vars, bus_vars, wm_vars, inst_vars>>

\* line 56, enqueue_run: send_task, which raises when the broker is away
submit_enqueue(c, sent) ==
    /\ api[c].pc = "open"
    /\ SubmitOrder[api[c].done + 1] = "enqueue"
    /\ IF sent
       THEN /\ queue' = Append(queue, api[c].run_id)
            /\ api' = [api EXCEPT ![c] = Respond([@ EXCEPT !.done = @ + 1])]
       ELSE /\ api' = [api EXCEPT ![c].pc = "idle",
                         ![c].response = Some([raised |-> "OperationalError"])]
            /\ UNCHANGED queue
    /\ UNCHANGED <<tables, events, pc, cur, locals, exc, ninv, nfaults, hist,
                   env>>
    /\ UNCHANGED <<fx, suite_vars, bus_vars, wm_vars, inst_vars>>

\* Submissions and the consumer's receipt of a task (worker.py 73-88).  The
\* queue is fed by submissions only, and process_run_begin takes the head
\* of the queue when it has a row; a head without a row stays in the queue,
\* where the property about the queue sees it.
NextSubmit ==
    \/ \E c \in Clients, run_id \in SubmitIds, suite \in SuiteChoices,
          flag \in BOOLEAN : submit_begin(c, run_id, suite, flag)
    \/ \E c \in Clients : submit_commit(c)
    \/ \E c \in Clients, sent \in BOOLEAN : submit_enqueue(c, sent)
    \/ process_run_begin

SpecSubmit == Init /\ [][NextSubmit]_allvars


\* ------------------------------ run_suite, its commands (playwright_runner)
\* One run_suite call followed through the commands it runs: the install of
\* the UI folder (line 192), the server, the install of the test folder
\* (line 225), the tests.
not_inst == <<vars, fx, suite_vars, bus_vars, wm_vars, api_vars>>

LockFiles == {"pnpm-lock.yaml", "yarn.lock", "package-lock.json"}
ExitCodes == {0, 1, TimeoutExit}
InstallFailed == "RuntimeError: Dependency install failed"

\* lines 60-65
detect_pkg_manager(files) ==
    IF "pnpm-lock.yaml" \in files THEN "pnpm"
    ELSE IF "yarn.lock" \in files THEN "yarn"
    ELSE "npm"

\* line 175
install_cmd(pkg) ==
    CASE pkg = "npm" -> "npm ci"
      [] pkg = "pnpm" -> "pnpm install --frozen-lockfile"
      [] pkg = "yarn" -> "yarn install --frozen-lockfile"

\* line 182
fallback(pkg) ==
    CASE pkg = "npm" -> "npm install"
      [] pkg = "pnpm" -> "pnpm install"
      [] pkg = "yarn" -> "yarn install"

Dirs == {"ui", "tests"}
FilesOf(dir) == IF dir = "ui" THEN inst.ui ELSE inst.tests[1]
InstallPc(dir) == IF dir = "ui" THEN "install_ui" ELSE "install_tests"
FallbackPc(dir) == IF dir = "ui" THEN "fallback_ui" ELSE "fallback_tests"
\* where run_suite goes on after _install_deps returned
AfterInstall(dir) == IF dir = "ui" THEN "start_server" ELSE "run"
\* an exception before the try of line 213 leaves run_suite; inside it the
\* finally of line 277 runs first
RaisedAt(dir) == IF dir = "ui" THEN "done" ELSE "finally"
Ran(dir, cmd, code) == [dir |-> dir, cmd |-> cmd, code |-> code]

\* lines 188-190: the inputs of the call; package.json is there, or not
is_begin(enabled, ui, tests) ==
    /\ inst.pc = "idle"
    /\ \/ inst' = [inst EXCEPT !.pc = "install_ui", !.enabled = enabled,
                                !.ui = ui, !.tests = tests]
       \/ inst' = [inst EXCEPT !.pc = "done", !.exc = "FileNotFoundError"]
    /\ UNCHANGED not_inst

\* _install_deps, lines 172-179: the switch, the package manager, the
\* frozen install
is_install(dir) ==
    /\ inst.pc = InstallPc(dir)
    /\ IF ~inst.enabled
       THEN inst' = [inst EXCEPT !.pc = AfterInstall(dir)]
       ELSE \E code \in ExitCodes :
              inst' = [inst EXCEPT
                         !.cmds = Append(@, Ran(dir,
                                    install_cmd(detect_pkg_manager(FilesOf(dir))),
                                    code)),
                         !.pc = IF code # 0 THEN FallbackPc(dir)
                                ELSE AfterInstall(dir)]
    /\ UNCHANGED not_inst

\* _install_deps, lines 180-185: the relaxed install, and the error
is_fallback(dir) ==
    /\ inst.pc = FallbackPc(dir)
    /\ \E code2 \in ExitCodes :
         inst' = [inst EXCEPT
                    !.cmds = Append(@, Ran(dir,
                               fallback(detect_pkg_manager(FilesOf(dir))), code2)),
                    !.pc = IF code2 # 0 THEN RaisedAt(dir) ELSE AfterInstall(dir),
                    !.exc = IF code2 # 0 THEN InstallFailed ELSE @]
    /\ UNCHANGED not_inst

\* lines 194-211
is_start_server ==
    /\ inst.pc = "start_server"
    /\ \/ inst' = [inst EXCEPT !.pc = "probe", !.server = TRUE]
       \/ inst' = [inst EXCEPT !.pc = "done", !.exc = "OSError"]
    /\ UNCHANGED not_inst

\* lines 214-215
is_wait_http_ok ==
    /\ inst.pc = "probe"
    /\ \/ inst' = [inst EXCEPT !.pc = "tests"]
       \/ inst' = [inst EXCEPT !.pc = "finally",
                                !.exc = "RuntimeError: UI server did not become ready"]
    /\ UNCHANGED not_inst

\* lines 219-225: the test folder, and its package.json
is_tests_folder ==
    /\ inst.pc = "tests"
    /\ \/ inst' = [inst EXCEPT !.pc = IF inst.tests = None THEN "run"
                                       ELSE "install_tests"]
       \/ inst' = [inst EXCEPT !.pc = "finally", !.exc = "FileNotFoundError"]
    /\ UNCHANGED not_inst

\* lines 227-263: the tests run (0, non-zero, or 124 at the time-out)
is_run_tests ==
    /\ inst.pc = "run"
    /\ \E code \in ExitCodes :
         inst' = [inst EXCEPT !.pc = "copy",
                              !.cmds = Append(@, Ran("tests", "npx playwright test",
                                                     code))]
    /\ UNCHANGED not_inst

\* a file of the test folder: the folder directly under pw_cwd it lies in,
\* its path below that folder, its suffix
File(top, rel, suffix) == [top |-> top, rel |-> rel, suffix |-> suffix]

\* what the test folder holds after the tests ran
TestFolders ==
    { {},
      {File("node_modules", "pkg/package.json", ".json"),
       File("tests", "smoke.spec.ts", ".ts")},
      {File("test-results", "smoke/trace.zip", ".zip"),
       File("test-results", "smoke/error-context.md", ".md"),
       File("playwright-report", "index.html", ".html"),
       File("playwright-report", "data/shot.png", ".png"),
       File("artifacts", "video.webm", ".webm"),
       File("coverage", "lcov.json", ".json")} }

\* lines 153-157
artifact_patterns == {"test-results", "playwright-report", "artifacts"}
\* line 162
EvidenceSuffixes == {".zip", ".png", ".webm", ".jpg", ".json"}

\* _copy_test_artifacts, lines 150-169: the files it copies
copy_test_artifacts(tree) ==
    {f \in tree : f.top \in artifact_patterns /\ f.suffix \in EvidenceSuffixes}

\* lines 267-276: the copy, then the result is returned; dst.parent.mkdir
\* (line 165) can raise
is_copy_artifacts ==
    /\ inst.pc = "copy"
    /\ \/ \E tree \in TestFolders :
            inst' = [inst EXCEPT !.pc = "finally",
                                 !.copied = Some(copy_test_artifacts(tree))]
       \/ inst' = [inst EXCEPT !.pc = "finally", !.exc = "OSError"]
    /\ UNCHANGED not_inst

\* lines 277-285
is_finally ==
    /\ inst.pc = "finally"
    /\ inst' = [inst EXCEPT !.pc = "done"]
    /\ UNCHANGED not_inst

NextInstall ==
    \/ \E enabled \in BOOLEAN, ui \in SUBSET LockFiles,
          tests \in {None} \cup {Some(fs) : fs \in SUBSET LockFiles} :
         is_begin(enabled, ui, tests)
    \/ \E dir \in Dirs : is_install(dir) \/ is_fallback(dir)
    \/ is_start_server
    \/ is_wait_http_ok
    \/ is_tests_folder
    \/ is_run_tests
    \/ is_copy_artifacts
    \/ is_finally

SpecInstall == Init /\ [][NextInstall]_allvars


\* ------------------------------------------------------------- claims
\* the terminal statuses (models.py, the comment of Run.status)
Terminal == {"succeeded", "failed", "cancelled"}

\* an invocation of _process_run has ended: it returned or an exception left it
Ended == hist.outcome \in {"returned", "raised"}

\* the suites one invocation runs for a run (lines 122 and 128)
SuitesOf(run) ==
    (IF run.suite \in {"smoke", "both"} THEN <<"smoke">> ELSE <<>>)
    \o (IF run.suite \in {"regression", "both"} THEN <<"regression">> ELSE <<>>)

\* C1: a run's committed status changes only by queued->running,
\* running->succeeded and running->failed, whatever is invoked and whatever
\* the steps do.
C1_OnlyThreeTransitions ==
    [][\A r \in DOMAIN runs :
         runs'[r].status # runs[r].status =>
           <<runs[r].status, runs'[r].status>> \in
             {<<"queued", "running">>, <<"running", "succeeded">>,
              <<"running", "failed">>}]_allvars

\* C2: an invocation that finds its run in a terminal status is a no-op: it
\* returns at once, the run row and the Bug, Artifact and IssueRef tables are
\* unchanged and nothing is published.
C2_TerminalRunNotReentered ==
    [][(/\ pc = "idle" /\ queue # <<>> /\ ninv' = ninv + 1
        /\ Head(queue) \in DOMAIN runs
        /\ runs[Head(queue)].status \in Terminal)
       => (/\ UNCHANGED tables
           /\ pc' = "idle"
           /\ hist'.outcome = "returned"
           /\ events' = <<>>)]_allvars

\* C3: an invocation that committed status running has, when it has ended
\* (returned or raised), left the run succeeded or failed, never running.
C3_NeverLeftRunning ==
    (Ended /\ hist.began) =>
        runs[hist.run_id].status \in {"succeeded", "failed"}

\* C4: in every committed state finished_at is set exactly when the status
\* is terminal.
C4_FinishedIffTerminal ==
    \A r \in DOMAIN runs :
        (runs[r].finished_at # None) <=> (runs[r].status \in Terminal)

\* C5: when git clone exits non-zero (CalledProcessError) and nothing else
\* raises, the run ends failed with the "Command failed" message naming the
\* clone, no later step has published anything, and the run has no Bug,
\* Artifact or IssueRef row.
C5_CloneFailureLeavesNothing ==
    (/\ Ended /\ hist.began
     /\ hist.faults = <<"git clone">>
     /\ exc.cls = "CalledProcessError")
    => LET r == hist.run_id IN
       /\ runs[r].status = "failed"
       /\ runs[r].error_message =
            Some(CommandFailed(Raised("CalledProcessError", "git clone")))
       /\ \A i \in 1..Len(events) :
            events[i].payload.step \in {"clone_repo", "done", "error"}
       /\ \A i \in 1..Len(bug_rows) : bug_rows[i].run_id # r
       /\ \A i \in 1..Len(artifacts) : artifacts[i].run_id # r
       /\ \A i \in 1..Len(issues) : issues[i].run_id # r

\* C6: an invocation in which nothing raised ends with the run succeeded and
\* with every suite it ran in the summary, a not-ok suite (exit code
\* non-zero, the timeout's 124 included) as ok = FALSE with its exit code:
\* a not-ok suite result by itself never makes the run failed.
C6_NotOkSuiteIsData ==
    (Ended /\ hist.began /\ hist.faults = <<>>) =>
        LET run == runs[hist.run_id]
            ran == SuitesOf(run)
            answers == env[hist.run_id].suite
        IN /\ run.status = "succeeded"
           /\ run.summary_json # None
           /\ Len(run.summary_json[1].suites) = Len(ran)
           /\ \A i \in 1..Len(ran) :
                /\ answers[ran[i]] # None
                /\ run.summary_json[1].suites[i] =
                     [suite |-> ran[i],
                      ok |-> (answers[ran[i]][1].exit_code = 0),
                      exit_code |-> answers[ran[i]][1].exit_code]

\* C6 happens: an invocation ended succeeded with a suite that timed out
\* (exit code 124) recorded as not ok in its summary
C6_Witness ==
    /\ Ended /\ hist.began /\ hist.faults = <<>>
    /\ runs[hist.run_id].status = "succeeded"
    /\ \E i \in 1..Len(runs[hist.run_id].summary_json[1].suites) :
         runs[hist.run_id].summary_json[1].suites[i] =
           [suite |-> "smoke", ok |-> FALSE, exit_code |-> TimeoutExit]

\* C7: whatever adapter.triage_failures does for a not-ok suite (it raises,
\* or returns a response of any shape), the run is not failed for it: when
\* nothing outside triage raised, the invocation ends succeeded.
C7_TriageNeverFailsRun ==
    (/\ Ended /\ hist.began
     /\ \E s \in {"smoke", "regression"} : env[hist.run_id].triage[s] # None
     /\ \A i \in 1..Len(hist.faults) : hist.faults[i] = "normalize")
    => runs[hist.run_id].status = "succeeded"

\* C8: when create_or_comment_issue raises for one bug and nothing else
\* raises, the loop goes on and the run still ends succeeded.
C8_IssueFailureNotFatal ==
    (Ended /\ hist.began /\ hist.faults = <<"create_or_comment_issue">>)
    => runs[hist.run_id].status = "succeeded"

RECURSIVE Flatten(_)
Flatten(ss) == IF ss = <<>> THEN <<>> ELSE Head(ss) \o Flatten(Tail(ss))

\* every result of a list of report suites, those of child suites included
RECURSIVE AllResults(_)
AllResults(suites) ==
    IF suites = <<>> THEN <<>>
    ELSE LET specs == Get(Head(suites), "specs", PyList(<<>>)).v
             ofTest(t) == Get(t, "results", PyList(<<>>)).v
             ofSpec(sp) ==
                LET tests == Get(sp, "tests", PyList(<<>>)).v
                IN Flatten([j \in 1..Len(tests) |-> ofTest(tests[j])])
         IN Flatten([i \in 1..Len(specs) |-> ofSpec(specs[i])])
            \o AllResults(Get(Head(suites), "suites", PyList(<<>>)).v)
            \o AllResults(Tail(suites))

\* C9: for a report holding N results with status failed or timedOut,
\* wherever in the nested suites they sit, the fallback extractor returns
\* exactly N bugs, each of severity "major".
C9_OneBugPerFailedResult ==
    fx_out # None =>
        LET all == AllResults(Get(fx_in[1].data, "suites", PyList(<<>>)).v)
            N == Cardinality({i \in 1..Len(all) :
                     Get(all[i], "status", PyNone).v \in {"failed", "timedOut"}})
        IN /\ Len(fx_out[1]) = N
           /\ \A i \in 1..Len(fx_out[1]) :
                Get(fx_out[1][i], "severity", PyNone) = PyStr("major")

\* C10: two passes, in whatever run, at whatever time and with whatever
\* other fields, give the same bug_id exactly when they have the same suite
\* and the same title after normalisation.
C10_BugIdOfSuiteAndTitle ==
    \A p \in fx_out, q \in fx_out :
        (p.bug.bug_id = q.bug.bug_id)
          <=> (p.suite = q.suite /\ p.bug.title = q.bug.title)

\* C10 happens: two passes in different runs at different times, given
\* different severities and differently padded titles, got the same bug_id
C10_Witness ==
    \E p \in fx_out, q \in fx_out :
        /\ p.run_id # q.run_id /\ p.now # q.now
        /\ p.bug.severity # q.bug.severity
        /\ p.given # q.given
        /\ p.suite = q.suite /\ p.bug.title = q.bug.title
        /\ p.bug.bug_id = q.bug.bug_id

\* C11: issue filing runs only for a run whose create_github_issues flag is
\* set and whose bug list is not empty; an IssueRef is added only for a bug
\* whose call returned a non-empty URL, and the Bug row of that bug then
\* holds the same URL.
C11_IssueRefOnlyWithUrl ==
    [][/\ pc' \in {"issues_start", "issues_loop"} =>
            (runs'[cur'].create_github_issues = 1 /\ bugs' # <<>>)
       /\ issues' # issues =>
            LET ref == issues'[Len(issues')]
                row == Len(bug_rows) - Len(bugs) + idx
            IN /\ pc = "issues_loop"
               /\ issues' = Append(issues, ref)
               /\ env'[cur].issue[idx] # "none"
               /\ ref.run_id = cur /\ ref.bug_id = bugs[idx].bug_id
               /\ bug_rows'[row].run_id = cur
               /\ bug_rows'[row].bug_id = ref.bug_id
               /\ bug_rows'[row].github_issue_url = Some(ref.issue_url)]_allvars

\* C12: a run an invocation has left failed has an error_message, and a log
\* event of level "error" was published on its channel.
C12_FailedRunHasErrorLog ==
    (Ended /\ hist.began /\ runs[hist.run_id].status = "failed") =>
        /\ runs[hist.run_id].error_message # None
        /\ \E i \in 1..Len(events) :
             /\ events[i].channel = hist.run_id
             /\ events[i].payload.type = "log"
             /\ events[i].payload.level = "error"

\* C13: a run whose committed status is succeeded has a summary with one
\* {suite, ok, exit_code} entry per suite that was run, in the order they
\* ran, and a bug count, which is 0 when every suite was ok.
C13_SucceededRunHasSummary ==
    \A r \in DOMAIN runs :
        runs[r].status = "succeeded" =>
            /\ runs[r].summary_json # None
            /\ LET summary == runs[r].summary_json[1]
                   ran == SuitesOf(runs[r])
               IN /\ DOMAIN summary.suites = 1..Len(ran)
                  /\ \A i \in 1..Len(ran) :
                       /\ env[r].suite[ran[i]] # None
                       /\ summary.suites[i].suite = ran[i]
                       /\ summary.suites[i].exit_code =
                            env[r].suite[ran[i]][1].exit_code
                       /\ summary.suites[i].ok = env[r].suite[ran[i]][1].ok
                  /\ summary.bugs \in Nat
                  /\ (\A i \in 1..Len(ran) : summary.suites[i].ok)
                       => summary.bugs = 0

\* C13 happens: a run of both suites is succeeded, smoke ok and regression
\* not, with a bug counted
C13_Witness ==
    \E r \in DOMAIN runs :
        /\ runs[r].status = "succeeded"
        /\ runs[r].suite = "both"
        /\ runs[r].summary_json[1].suites[1].ok
        /\ ~runs[r].summary_json[1].suites[2].ok
        /\ runs[r].summary_json[1].bugs > 0

\* run_suite has returned or raised
Left(c) == calls[c].pc = "done"
\* a process, or the command it was started for, is still running
Alive(p) == p.sh = "running" \/ p.cmd = "running"

\* C14: once run_suite has returned or raised after launching the server,
\* no process of the server it started is still running.
C14_NoServerLeftRunning ==
    \A c \in Callers :
        (Left(c) /\ calls[c].server # NoProc) => ~Alive(calls[c].server)

\* C15: when the readiness probe timed out, run_suite has raised without
\* ever launching the test runner and the server is no longer running.
C15_NotReadyRaisesAndStops ==
    \A c \in Callers :
        (Left(c) /\ calls[c].exc = "RuntimeError: UI server did not become ready")
        => /\ calls[c].runner = NoProc
           /\ calls[c].ret = None
           /\ ~Alive(calls[c].server)

\* C16: when the test runner was not done at its timeout, it has been
\* killed and run_suite returns a result with exit code 124 and ok = FALSE;
\* every result has ok exactly when its exit code is 0.
C16_TimeoutIsExit124 ==
    \A c \in Callers :
        /\ (Left(c) /\ calls[c].exc = NULL /\ calls[c].code = TimeoutExit)
           => /\ calls[c].ret # None
              /\ calls[c].ret[1].exit_code = TimeoutExit
              /\ ~calls[c].ret[1].ok
              /\ ~Alive(calls[c].runner)
        /\ calls[c].ret # None =>
              (calls[c].ret[1].ok <=> calls[c].ret[1].exit_code = 0)

\* a caller holds an allocated port that its server has not bound yet
Allocated(c) ==
    /\ calls[c].pc \in {"default_start", "start", "probe"}
    /\ ~calls[c].bound
    /\ calls[c].server.cmd # "exited"

\* C17: from the allocation of a port until the server binds it, no other
\* run_suite call holds the same port and no other process has taken it.
C17_AllocatedPortStaysFree ==
    \A c \in Callers :
        Allocated(c) =>
            /\ host[calls[c].port] = "free"
            /\ \A d \in Callers \ {c} :
                 Allocated(d) => calls[d].port # calls[c].port

\* C18: what a subscriber has received are events published after it
\* subscribed (no replay), each at most once and in the order they were
\* published.
C18_NoReplayInOrder ==
    \A s \in Subscribers :
        LET got == bus.subs[s].received IN
        \A j \in 1..Len(got) :
            /\ got[j].n > bus.subs[s].since
            /\ got[j].text = Sse(bus.log[got[j].n].data)
            /\ j > 1 => got[j - 1].n < got[j].n

\* C18 happens: a subscriber that came after an event of its run was
\* published has received the two events published since
C18_Witness ==
    \E s \in Subscribers :
        /\ bus.subs[s].since >= 1
        /\ bus.log[1].run_id = bus.subs[s].run_id
        /\ Len(bus.subs[s].received) = 2

\* C19: a subscriber to one run's stream receives only events that were
\* published with that run id.
C19_EventsOfOwnRunOnly ==
    \A s \in Subscribers :
        \A j \in 1..Len(bus.subs[s].received) :
            bus.log[bus.subs[s].received[j].n].run_id = bus.subs[s].run_id

\* C19 happens: events of two runs were published while a subscriber was
\* listening, and it has received the one of its run
C19_Witness ==
    \E s \in Subscribers :
        /\ Len(bus.subs[s].received) >= 1
        /\ \E n \in (bus.subs[s].since + 1)..Len(bus.log) :
             /\ bus.log[n].run_id # bus.subs[s].run_id
             /\ n < bus.subs[s].received[1].n

\* C20: a start call that began while a worker process started earlier was
\* alive, and whose steps find that process still alive, changes neither the
\* manager's process, mode, start time and log buffer nor the set of spawned
\* processes, and returns {success: false, error: already running}.
C20_StartWhileAliveIsRejected ==
    [][\A t \in Threads :
         ( /\ reqs[t].op = "start"
           /\ reqs[t].seen # None
           /\ workers[reqs[t].seen[1]].alive
           /\ reqs'[t] # reqs[t] )
         => /\ wm' = wm
            /\ workers' = workers
            /\ reqs'[t].pc = "idle" => reqs'[t].result = Some(AlreadyRunning)
      ]_allvars


\* C21: every spawned worker process that is alive is the one the manager
\* references, so there are never two live worker processes and never a
\* live one the manager has lost.
C21_OneLiveReferencedWorker ==
    \A p \in LivePids : wm.process = Some(p)


\* the step is one of thread t's call
StepOf(t) == reqs'[t] # reqs[t]

\* C22: stop with no process returns an error and changes nothing; stop on
\* a process that does not exit on terminate goes on to kill it; when stop
\* returns success the process it found has exited and the manager holds
\* no process, so that a status call that then reads the manager reports
\* running = false and no pid.
C22_StopStopsTheWorker ==
    [][\A t \in Threads :
         /\ ( reqs[t].pc = "stop_check" /\ wm.process = None /\ StepOf(t) )
            => /\ reqs'[t].result = Some(Failure("Worker is not running"))
               /\ wm' = wm
               /\ workers' = workers
         /\ ( reqs[t].pc = "stop_terminate" /\ wm.process # None /\ StepOf(t)
              /\ workers'[wm.process[1]].alive )
            => reqs'[t].pc = "stop_kill"
         /\ ( reqs[t].pc = "stop_kill" /\ wm.process # None /\ StepOf(t) )
            => ~workers'[wm.process[1]].alive
         /\ ( reqs[t].op = "stop" /\ StepOf(t)
              /\ reqs'[t].result = Some(Stopped) )
            => /\ wm'.process = None
               /\ reqs[t].seen # None => ~workers'[reqs[t].seen[1]].alive
         /\ ( reqs[t].op = "status" /\ reqs[t].pc = "gs_read"
              /\ wm.process = None /\ StepOf(t) )
            => /\ reqs'[t].result # None
               /\ reqs'[t].result[1].running = FALSE
               /\ reqs'[t].result[1].pid = None
      ]_allvars


\* C23: with worker processes that end only by exiting on their own, every
\* status call reports; when it reports running = false it reports no pid
\* and no uptime and the manager holds no reference; a start that finds
\* the held process ended is not rejected; and status reports
\* running = true only with the pid of the held process while that process
\* is alive.
C23_ExitedWorkerIsNotRunning ==
    [][\A t \in Threads :
         /\ ( reqs[t].op = "status" /\ StepOf(t) /\ reqs'[t].pc = "idle" )
            => LET st == reqs'[t].result[1] IN
               /\ "running" \in DOMAIN st
               /\ st.running
                  => /\ wm.process # None
                     /\ st.pid = wm.process
                     /\ workers[wm.process[1]].alive
               /\ ~st.running
                  => /\ st.pid = None
                     /\ st.uptime = None
                     /\ wm'.process = None
         /\ ( reqs[t].op = "start" /\ StepOf(t)
              /\ reqs[t].pc \in {"gs_read", "gs_poll", "gs_clear"}
              /\ wm.process # None /\ ~workers[wm.process[1]].alive )
            => reqs'[t].pc # "idle"
      ]_allvars


\* C24: at the liveness check after spawning, start returns success with a
\* pid only for a process that is alive at that check, and returns
\* {success: false, error} when the process it spawned has already exited.
C24_StartReportsEarlyExit ==
    [][\A t \in Threads :
         ( reqs[t].pc = "start_confirm" /\ StepOf(t) )
         => LET res == reqs'[t].result[1] IN
            /\ "success" \in DOMAIN res
            /\ res.success
               => /\ "pid" \in DOMAIN res
                  /\ workers[res.pid].alive
            /\ ~workers[reqs[t].spawned[1]].alive
               => ~res.success /\ "error" \in DOMAIN res
      ]_allvars


\* C25: every run id in the task queue, and the one the consumer has
\* received, has a committed run record; a submission's response carries a
\* generated id of its own, whose record exists, and status queued.
C25_RecordCommittedBeforeEnqueued ==
    /\ \A i \in 1..Len(queue) : queue[i] \in DOMAIN runs
    /\ cur # NULL => cur \in DOMAIN runs
    /\ \A c \in Clients :
         ( api[c].response # None /\ "id" \in DOMAIN api[c].response[1] )
         => /\ api[c].response[1].status = "queued"
            /\ api[c].response[1].id \in DOMAIN runs
            /\ \A d \in Clients \ {c} : api[d].run_id # api[c].response[1].id

\* C25 happens: the consumer has received the id a submission returned
C25_Witness ==
    \E c \in Clients :
        /\ api[c].response # None
        /\ "id" \in DOMAIN api[c].response[1]
        /\ cur = api[c].response[1].id
        /\ hist.began
        /\ \E d \in Clients : api[d].pc = "open" /\ api[d].done = 1


\* C26: every step event the orchestrator has published, the terminal done
\* event included, is of type step and has a status of started or finished.
C26_StepStatusStartedOrFinished ==
    \A i \in 1..Len(events) :
        LET payload == events[i].payload IN
        "step" \in DOMAIN payload /\ "level" \notin DOMAIN payload
        => /\ payload.type = "step"
           /\ payload.status \in {"started", "finished"}


\* the steps of a run, in the order of _process_run
StepOrder == <<"clone_repo", "analyze_repo", "generate_tests_docs",
               "run_smoke", "run_regression", "triage", "github_issues">>
StepRank(step) == CHOOSE n \in 1..Len(StepOrder) : StepOrder[n] = step

\* the step events of the invocation other than done, in publication order
RECURSIVE StepEvents(_)
StepEvents(n) ==
    IF n = 0 THEN <<>>
    ELSE LET payload == events[n].payload IN
         StepEvents(n - 1)
         \o (IF payload.type = "step" /\ payload.step # "done"
                /\ "level" \notin DOMAIN payload
             THEN <<payload>> ELSE <<>>)

\* C27: among the step events of one invocation, a started event is the
\* first one or follows the finished event of an earlier step of the
\* order, and a finished event follows the started event of the same step:
\* steps run one after the other, in order, and the suites do not overlap.
C27_StepsInOrderOneAtATime ==
    LET se == StepEvents(Len(events)) IN
    \A i \in 1..Len(se) :
        /\ se[i].step \in {StepOrder[n] : n \in 1..Len(StepOrder)}
        /\ se[i].status = "started"
           => i = 1 \/ ( /\ se[i - 1].status = "finished"
                         /\ StepRank(se[i - 1].step) < StepRank(se[i].step) )
        /\ se[i].status # "started"
           => /\ se[i].status = "finished"
              /\ i > 1
              /\ se[i - 1].status = "started"
              /\ se[i - 1].step = se[i].step

\* C27 happens: an invocation ran both suites and went through every step
C27_Witness ==
    LET se == StepEvents(Len(events)) IN
    /\ Len(se) = 2 * Len(StepOrder)
    /\ se[Len(se)].step = "github_issues"
    /\ se[Len(se)].status = "finished"


\* C28: the done event of an invocation is the last event it publishes,
\* and it publishes at most one.
C28_DoneIsTheFinalEvent ==
    \A i \in 1..Len(events) :
        ( "level" \notin DOMAIN events[i].payload
          /\ events[i].payload.step = "done" )
        => i = Len(events)


\* has the invocation published the event of this step with this status?
Published(step, status) ==
    \E i \in 1..Len(events) :
        LET payload == events[i].payload IN
        /\ "level" \notin DOMAIN payload
        /\ payload.step = step
        /\ payload.status = status

\* the run_suite call of the smoke suite raised: run_smoke started, never
\* finished, and the exception that ended the try is run_suite's
SmokeRaised ==
    /\ Published("run_smoke", "started")
    /\ ~Published("run_smoke", "finished")
    /\ hist.faults # <<>>
    /\ hist.faults[1] = "run_suite"

\* C29: an invocation starts the smoke suite only for a selection of smoke
\* or both and the regression suite only for regression or both; one that
\* reached triage has finished every selected suite; regression starts
\* only after a selected smoke suite has finished; and when the smoke
\* run_suite call raised, the ended invocation never started regression and
\* left the run failed.
C29_SuitesAsSelected ==
    hist.run_id # NULL =>
      LET suite == runs[hist.run_id].suite IN
      /\ Published("run_smoke", "started") => suite \in {"smoke", "both"}
      /\ Published("run_regression", "started")
         => /\ suite \in {"regression", "both"}
            /\ suite = "both" => Published("run_smoke", "finished")
      /\ Published("triage", "started")
         => /\ suite \in {"smoke", "both"} => Published("run_smoke", "finished")
            /\ suite \in {"regression", "both"}
               => Published("run_regression", "finished")
      /\ (Ended /\ SmokeRaised)
         => /\ ~Published("run_regression", "started")
            /\ runs[hist.run_id].status = "failed"


\* the analysis or the generation call of the invocation failed: the call
\* raised (transport error, timeout) or its answer was empty or unparsable
AdapterFailed == hist.run_id # NULL /\ hist.adapter \in {"raised", "unparsable"}

\* C30: in every step that ends with the invocation's analysis or
\* generation call failed, the invocation goes to its except clause or has
\* ended, it has published no finished event of the generation step and no
\* event of a suite, no Bug or Artifact row is written, and when it has
\* ended the run is failed.
C30_AdapterFailureIsFatal ==
    [][ AdapterFailed'
        => /\ pc' \in {"except", "idle"}
           /\ ~(Published("generate_tests_docs", "finished"))'
           /\ ~(Published("run_smoke", "started"))'
           /\ ~(Published("run_regression", "started"))'
           /\ ~(Published("triage", "started"))'
           /\ bug_rows' = bug_rows
           /\ artifacts' = artifacts
           /\ Ended' => runs'[hist'.run_id].status = "failed" ]_allvars


\* the four levels of severity, under either of their names
SeverityTaxonomy ==
    {"blocker", "critical", "high", "major", "medium", "minor", "low"}

\* C31: every Bug row has a severity of the four-level taxonomy, whether
\* the bug came from the triage response or from the fallback extractor.
C31_SeverityInTaxonomy ==
    \A i \in 1..Len(bug_rows) : bug_rows[i].severity \in SeverityTaxonomy


\* the installs _run has run in a folder, in order
RECURSIVE InstallsIn(_, _)
InstallsIn(dir, n) ==
    IF n = 0 THEN <<>>
    ELSE InstallsIn(dir, n - 1)
         \o (IF inst.cmds[n].dir = dir /\ inst.cmds[n].cmd # "npx playwright test"
             THEN <<inst.cmds[n]>> ELSE <<>>)

FrozenInstalls ==
    {"pnpm install --frozen-lockfile", "yarn install --frozen-lockfile", "npm ci"}

\* the commands of the package manager the lockfiles select: pnpm, then
\* yarn, then npm
ByPriority(files) ==
    IF "pnpm-lock.yaml" \in files
    THEN {"pnpm install --frozen-lockfile", "pnpm install"}
    ELSE IF "yarn.lock" \in files
    THEN {"yarn install --frozen-lockfile", "yarn install"}
    ELSE {"npm ci", "npm install"}

BothFailed(dir) ==
    LET r == InstallsIn(dir, Len(inst.cmds))
    IN Len(r) = 2 /\ r[1].code # 0 /\ r[2].code # 0

\* C32: in each folder the frozen install runs first; the relaxed install
\* runs, once, exactly when the frozen one exited non-zero (124 is its
\* time-out); both are of the package manager the lockfiles select with
\* priority pnpm, yarn, npm; run_suite fails with the install error exactly
\* when both exited non-zero, and then the server was never started.
C32_InstallFrozenThenRelaxed ==
    /\ \A dir \in {d \in Dirs : InstallsIn(d, Len(inst.cmds)) # <<>>} :
         LET r == InstallsIn(dir, Len(inst.cmds)) IN
         /\ Len(r) <= 2
         /\ r[1].cmd \in FrozenInstalls
         /\ Len(r) = 2 => r[1].code # 0 /\ r[2].cmd \notin FrozenInstalls
         /\ r[1].code # 0 => Len(r) = 2 \/ inst.pc = FallbackPc(dir)
         /\ \A i \in 1..Len(r) : r[i].cmd \in ByPriority(FilesOf(dir))
    /\ inst.exc = InstallFailed <=> \E dir \in Dirs : BothFailed(dir)
    /\ inst.exc = InstallFailed => ~inst.server


\* C33: a run_suite call that started the server has, when it exits,
\* called the copy of the artifact folders, and what was copied are files
\* of the evidence types lying in the known folders.
C33_ArtifactsCopiedWhateverTheOutcome ==
    /\ (inst.pc = "done" /\ inst.server) => inst.copied # None
    /\ inst.copied # None
       => \A f \in inst.copied[1] :
            /\ f.top \in {"test-results", "playwright-report", "artifacts"}
            /\ f.suffix \in {".zip", ".png", ".webm", ".jpg", ".json"}


\* the response the API thread holds, if it is one of this kind
StatusHeld ==
    reqs[LogThread].result # None /\ "log_tail" \in DOMAIN reqs[LogThread].result[1]
LogsHeld ==
    reqs[LogThread].result # None /\ "asked" \in DOMAIN reqs[LogThread].result[1]

\* the last n of the lines read so far, oldest first, as numbers of arrival
RecentLines(n) ==
    LET last == IF wm.logs = <<>> THEN 0 ELSE wm.logs[Len(wm.logs)]
        k == IF n < last THEN n ELSE last
    IN [i \in 1..k |-> last - k + i]

\* C34: the buffer never holds more than 500 lines; it holds the most
\* recent lines in the order they arrived (at a full buffer the oldest one
\* went); the log_tail of a status is the 100 most recent lines at most,
\* and taking it leaves the buffer as it was.
C34_BoundedDropOldestBuffer ==
    [][ /\ Len(wm'.logs) <= 500
        /\ wm'.logs = (RecentLines(500))'
        /\ StatusHeld'
           => /\ Len(reqs'[LogThread].result[1].log_tail) <= 100
              /\ reqs'[LogThread].result[1].log_tail = (RecentLines(100))'
              /\ wm'.logs = wm.logs ]_allvars

\* C34 happens: the full buffer has dropped lines, and a status holds 100
C34_Witness ==
    /\ Len(wm.logs) = 500
    /\ wm.logs[1] > 1
    /\ StatusHeld
    /\ Len(reqs[LogThread].result[1].log_tail) = 100

\* C39: get_logs(n), n >= 0, returns the n most recent lines of the
\* buffer, in arrival order, and so at most n lines: none for n = 0.
C39_GetLogsReturnsLastN ==
    (LogsHeld /\ reqs[LogThread].result[1].asked >= 0)
    => /\ Len(reqs[LogThread].result[1].logs) <= reqs[LogThread].result[1].asked
       /\ reqs[LogThread].result[1].logs
            = RecentLines(IF reqs[LogThread].result[1].asked < 500
                          THEN reqs[LogThread].result[1].asked ELSE 500)


\* C35: when the publication of the done event raises after the commit of
\* status succeeded (the invocation is at its except clause and the run is
\* succeeded), what follows leaves the run succeeded, its summary set and
\* its error_message as it was.
C35_SucceededSurvivesDoneFailure ==
    [][ (pc = "except" /\ runs[cur].status = "succeeded")
        => /\ runs'[cur].status = "succeeded"
           /\ runs'[cur].summary_json = runs[cur].summary_json
           /\ runs'[cur].error_message = runs[cur].error_message ]_allvars


\* C36: no two Bug rows of one run have the same bug_id; and so no two
\* IssueRef rows of one run are for the same bug_id, and every Bug row
\* whose bug has an IssueRef holds an issue URL.
C36_BugIdsUniqueWithinRun ==
    /\ \A i, j \in 1..Len(bug_rows) :
         (i # j /\ bug_rows[i].run_id = bug_rows[j].run_id)
         => bug_rows[i].bug_id # bug_rows[j].bug_id
    /\ \A i, j \in 1..Len(issues) :
         (i # j /\ issues[i].run_id = issues[j].run_id)
         => issues[i].bug_id # issues[j].bug_id
    /\ \A i \in 1..Len(issues), j \in 1..Len(bug_rows) :
         (issues[i].run_id = bug_rows[j].run_id
          /\ issues[i].bug_id = bug_rows[j].bug_id)
         => bug_rows[j].github_issue_url # None


\* the positions of the rows of a run in a table
RowsOf(table, run_id) == {i \in 1..Len(table) : table[i].run_id = run_id}

\* C37: for every succeeded run the bug count of its summary is the number
\* of its Bug rows, every such row is of a suite whose result in the
\* summary is not ok, and the run has exactly one csv Artifact row.
C37_SummaryMatchesRows ==
    \A r \in DOMAIN runs :
        runs[r].status = "succeeded"
        => LET summary == runs[r].summary_json[1] IN
           /\ summary.bugs = Cardinality(RowsOf(bug_rows, r))
           /\ \A i \in RowsOf(bug_rows, r) :
                \E n \in 1..Len(summary.suites) :
                    /\ summary.suites[n].suite = bug_rows[i].test_type
                    /\ ~summary.suites[n].ok
           /\ Cardinality({i \in RowsOf(artifacts, r) : artifacts[i].type = "csv"}) = 1

\* ------------------------------------------------ C38
\* The consumer takes a task whose id has no row.
TakesUnknownId ==
    /\ pc = "idle" /\ queue # <<>>
    /\ Head(queue) \notin DOMAIN runs
    /\ queue' = Tail(queue)

\* C38: process_run for an id that has no run record is a no-op: the
\* invocation returns at once, no row of any table is created or changed (the
\* other runs included), the step that makes the scratch and artifact
\* directories is never reached, and nothing is published.
C38_UnknownIdIsNoOp ==
    [][TakesUnknownId =>
          /\ UNCHANGED tables
          /\ UNCHANGED env
          /\ pc' = "idle"
          /\ hist'.run_id = Head(queue)
          /\ hist'.outcome = "returned"
          /\ hist'.began = FALSE
          /\ hist'.faults = <<>>
          /\ events' = <<>>
          /\ UNCHANGED bus_vars]_allvars

\* an invocation for the unknown id has returned while another run has a row
C38_Witness ==
    /\ hist.run_id = MissingId
    /\ hist.outcome = "returned"
    /\ hist.row = None
    /\ DOMAIN runs # {}
    /\ events = <<>>

=============================================================================
